---- MODULE Spec2Model ----
(***************************************************************************)
(* Model of the attestation engine of the Intuition GitHub action:         *)
(*   withRetry            (utils/retry.ts)                                 *)
(*   the error classes    (utils/errors.ts)                                *)
(*   ensureProjectAtom / ensureContributorAtom (intuition/atoms.ts)        *)
(*   ensureAttestationTriple                   (intuition/triples.ts)      *)
(*   processAttestations / processContributor  (services/attestation.ts)   *)
(* The ledger (atoms, triples, wallet balance) is the environment: it is   *)
(* the only state that survives from one orchestration run to the next.    *)
(***************************************************************************)
EXTENDS Integers, Sequences, FiniteSets, TLC

(* ------------------------------ bounds -------------------------------- *)

\* Number of ensure calls all the runs of one behaviour may make together
\* (a run over n contributors makes at most 1 + 2n).
MaxCalls == 6
\* Number of gateway calls the environment may make fail in one behaviour.
MaxFaults == 2
\* Largest retryOptions.maxAttempts of an orchestration run.
MaxAttempts == 2
\* Largest maxAttempts of a withRetry call on an arbitrary function.
MaxRetryAttempts == 3
\* Largest initial wallet balance (wei).
MaxBalance == 12
\* The client's configured minimum deposit (wei), client.getMinDeposit().
MinDeposit == 2
\* Largest maxAttempts of a withRetry call whose delays are observed.
MaxBackoffAttempts == 5
\* Largest number of commits in a pull request.
MaxCommits == 3

(* ----------------------------- constants ------------------------------ *)

\* The empty sentinel '0x0'.
ZeroHex == 0
\* WAS_ASSOCIATED_WITH_PREDICATE_ID, abbreviated.
WAS_ASSOCIATED_WITH_PREDICATE_ID == 7
\* maxDelayMs = 30000, the default of withRetry.
DefaultMaxDelayMs == 30000

(* ------------------------------- errors ------------------------------- *)

\* Messages are sequences of text fragments, so that a wrapping message
\* `${prefix}: ${inner.message}` is the prefix followed by the inner one.

\* class ActionError(message, isRetryable = false)
ActionError(message, isRetryable) ==
    [kind |-> "ActionError", isRetryable |-> isRetryable, message |-> message]

\* new ActionError(message): isRetryable takes its default.
ActionErrorDefault(message) == ActionError(message, FALSE)

InvalidInputError(message) ==
    [kind |-> "InvalidInputError", isRetryable |-> FALSE, message |-> message]

InsufficientFundsError(message) ==
    [kind |-> "InsufficientFundsError", isRetryable |-> FALSE, message |-> message]

NetworkError(message) ==
    [kind |-> "NetworkError", isRetryable |-> TRUE, message |-> message]

\* Variant of GitHubAPIError for which only 404 is not retryable.
GitHubAPIErrorOnly404(message, statusCode) ==
    [kind |-> "GitHubAPIError", isRetryable |-> (statusCode # 404),
     message |-> message, statusCode |-> statusCode]

\* isRetryable = statusCode !== 404 && statusCode !== 403; statusCode 0
\* stands for an absent one.
GitHubAPIError(message, statusCode) ==
    [kind |-> "GitHubAPIError",
     isRetryable |-> (statusCode # 404 /\ statusCode # 403),
     message |-> message, statusCode |-> statusCode]

TransactionFailedError(message) ==
    [kind |-> "TransactionFailedError", isRetryable |-> FALSE, message |-> message]

\* A JavaScript Error that is no ActionError (thrown by the SDK or the
\* runtime).  It has no isRetryable property; the field is never read for it.
PlainError(message) ==
    [kind |-> "Error", isRetryable |-> FALSE, message |-> message]

\* A thrown value that is no Error at all (throw 'text'); message holds
\* String(value).
NonErrorValue(text) ==
    [kind |-> "NonError", isRetryable |-> FALSE, message |-> text]

ActionErrorKinds ==
    {"ActionError", "InvalidInputError", "InsufficientFundsError",
     "NetworkError", "GitHubAPIError", "TransactionFailedError"}

\* error instanceof ActionError
IsActionError(e) == e.kind \in ActionErrorKinds

\* error instanceof Error
IsError(e) == e.kind # "NonError"

\* error instanceof Error ? error.message : String(error)
ErrorMessage(e) == e.message

(* ------------------------------ withRetry ----------------------------- *)

\* Variant of LastErrorOf that wraps every error in a new Error.
LastErrorAlwaysWrapped(e) == PlainError(e.message)

\* lastError = error instanceof Error ? error : new Error(String(error))
LastErrorOf(e) == IF IsError(e) THEN e ELSE PlainError(e.message)

\* Math.min
Min(a, b) == IF a <= b THEN a ELSE b

\* Variant of CurrentDelay without the cap.
CurrentDelayUncapped(options, attempt) ==
    IF options.exponentialBackoff = <<>> \/ options.exponentialBackoff[1]
    THEN options.delayMs * (2 ^ (attempt - 1))
    ELSE options.delayMs

\* const { delayMs, exponentialBackoff = true, maxDelayMs = 30000 } = options
\* currentDelay = exponentialBackoff
\*     ? Math.min(delayMs * Math.pow(2, attempt - 1), maxDelayMs) : delayMs
\* An option that is left out is <<>>.
CurrentDelay(options, attempt) ==
    LET exponentialBackoff ==
            IF options.exponentialBackoff = <<>> THEN TRUE
            ELSE options.exponentialBackoff[1]
        maxDelayMs ==
            IF options.maxDelayMs = <<>> THEN DefaultMaxDelayMs
            ELSE options.maxDelayMs[1]
    IN  IF exponentialBackoff
        THEN Min(options.delayMs * (2 ^ (attempt - 1)), maxDelayMs)
        ELSE options.delayMs

\* The retry options the action passes: { maxAttempts, delayMs: retryDelay },
\* retry-delay defaulting to '2000'.
ActionBackoff ==
    [delayMs |-> 2000, exponentialBackoff |-> <<>>, maxDelayMs |-> <<>>]

\* Variant of RetryDecision without the isRetryable test.
RetryDecisionIgnoringFatal(e, attempt, attempts) ==
    IF attempt = attempts THEN "break" ELSE "retry"

\* Variant of RetryDecision that retries classified retryable errors only.
RetryDecisionClassifiedOnly(e, attempt, attempts) ==
    IF ~IsActionError(e) \/ ~e.isRetryable THEN "throw"
    ELSE IF attempt = attempts THEN "break"
    ELSE "retry"

\* What the catch block of withRetry does with the error of attempt
\* `attempt`: rethrow it, leave the loop and throw lastError, or go on.
RetryDecision(e, attempt, attempts) ==
    IF IsActionError(e) /\ ~e.isRetryable THEN "throw"
    ELSE IF attempt = attempts THEN "break"
    ELSE "retry"

(* ------------------------------- ledger ------------------------------- *)

ProjectUrl == "repo"

Urls == <<"repo", "u1", "u2">>

\* The term id the ledger derives from an atom's url.
AtomIdOf(url) == 10 + (CHOOSE i \in 1..Len(Urls) : Urls[i] = url)

\* calculateTripleId(subject, predicate, object): a hash of the ordered triple.
calculateTripleId(s, p, o) == (100 * s) + (10 * p) + o

\* The hash of the n-th transaction the wallet submits.
TxHashOf(n) == 1000 + n

(* ------------------------------- inputs ------------------------------- *)

Repository == [fullName |-> "owner/repo", url |-> ProjectUrl]

\* The commit authors of the repository, in commit order.  Two contributors
\* may share a profile url (one login, two commit e-mails).
Roster ==
    << [name |-> "alice", email |-> "a@x", profileUrl |-> "u1"],
       [name |-> "bob",   email |-> "b@x", profileUrl |-> "u2"],
       [name |-> "al",    email |-> "a@y", profileUrl |-> "u1"] >>

RECURSIVE Pick(_, _)
\* The members of Roster whose positions are in `chosen`, from position i on,
\* in commit order.
Pick(chosen, i) ==
    IF i > Len(Roster) THEN <<>>
    ELSE IF i \in chosen THEN <<Roster[i]>> \o Pick(chosen, i + 1)
    ELSE Pick(chosen, i + 1)

\* What fetchContributors can return for a pull request: one contributor
\* per commit e-mail, in order of first appearance.
ContributorLists == { Pick(chosen, 1) : chosen \in SUBSET (1..Len(Roster)) }

VARIABLES
    pc,                \* the point the single control flow has reached
    contributors,      \* processAttestations: contributors
    failureMode,       \* processAttestations: failureMode
    maxAttempts,       \* retryOptions.maxAttempts
    backoff,           \* retryOptions: delayMs, exponentialBackoff, maxDelayMs
    summary,           \* processAttestations: summary
    projectAtomResult, \* processAttestations: projectAtomResult (<<>> unset)
    idx,               \* position of the for loop in contributors
    atomResult,        \* processContributor: atomResult (<<>> unset)
    ens,               \* the frame of the withRetry call in progress
    ret,               \* value returned by the ensure call (<<>> none)
    thrown,            \* error in flight (<<>> none)
    returned,          \* the summary handed to the caller (<<>> none)
    atoms,             \* ledger: urls that have an atom
    triples,           \* ledger: <<subject id, object id>> of the triples
    balance,           \* ledger: wallet balance
    txCount,           \* ledger: transactions accepted so far
    faults,            \* gateway calls that have failed so far
    reserved,          \* ensure calls the runs started so far may make
    calls,             \* history: the ensure calls this run has completed
    recent,            \* history: per resource, its last two ensure calls
    creates,           \* history: per resource, creates that reached the ledger
    blind,             \* history: per resource, lookups that failed
    log,               \* core.warning and core.error events of this run
    run,               \* run(): the GitHub context, the inputs, what it has done
    fetch              \* fetchContributors: commits and locals

vars == <<pc, contributors, failureMode, maxAttempts, backoff, summary,
          projectAtomResult, idx, atomResult, ens, ret, thrown, returned,
          atoms, triples, balance, txCount, faults, reserved, calls, recent,
          creates, blind, log, run, fetch>>

ledgerVars == <<atoms, triples, balance, txCount>>
runVars == <<contributors, failureMode, maxAttempts, backoff, reserved, run,
             fetch>>
loopVars == <<summary, projectAtomResult, idx, atomResult, returned>>
histVars == <<calls, recent, creates, blind, log>>

\* One core.warning or core.error call: its level, the code that made it
\* (the catch of withRetry, of a lookup, or of processContributor) and the
\* position of the contributor loop at the time.  core.info and core.debug
\* calls are not recorded.
LogEvent(level, from) == [level |-> level, from |-> from, idx |-> idx]

\* run() has not been entered: no context, nothing done.  pull is
\* github.context.payload.pull_request, config what validateAndParseInputs
\* returned, client the state of IntuitionClient.create, outputs the
\* core.setOutput calls, failed the core.setFailed call, log the core.info /
\* core.warning calls that tell why the run stopped early.
NoRun ==
    [eventName |-> "", pull |-> <<>>, inputsValid |-> FALSE, config |-> <<>>,
     client |-> "none", repository |-> FALSE, outputs |-> <<>>,
     failed |-> <<>>, log |-> <<>>]

\* fetchContributors has not been entered.  commits is what
\* octokit.paginate resolves to, i the position of the first loop,
\* authorsMap the Map in insertion order, j the position of the second loop.
NoFetch ==
    [commits |-> <<>>, i |-> 0, authorsMap |-> <<>>, j |-> 0,
     contributors |-> <<>>, skipped |-> 0]

(* ------------------------------ frames -------------------------------- *)

IsAtomKind(kind) == kind \in {"project", "contributor"}

\* Whether the resource the frame is about is on the ledger.
OnLedger(f) ==
    IF IsAtomKind(f.kind) THEN f.url \in atoms
    ELSE <<f.subj, f.obj>> \in triples

\* The frame of one withRetry call: its loop counter and the locals of the
\* function it runs.  ops lists the gateway calls and log events the call
\* has issued, errs the errors its body has thrown, one per failed attempt,
\* raw the errors the gateway has thrown inside the body and the step each
\* came from, absent whether the ledger lacked the resource when the call
\* began, warnings what withRetry has passed to core.warning.
BlankFrame(kind, url, subj, obj) ==
    [kind |-> kind, url |-> url, name |-> "", subj |-> subj, obj |-> obj,
     attempt |-> 1, invoked |-> 0, tripleExists |-> FALSE,
     txHash |-> ZeroHex, lookupOk |-> TRUE, absent |-> TRUE,
     ops |-> <<>>, errs |-> <<>>, raw |-> <<>>, delays |-> <<>>,
     warnings |-> <<>>]

NewFrame(kind, url, subj, obj) ==
    [BlankFrame(kind, url, subj, obj) EXCEPT
        !.absent = ~OnLedger(BlankFrame(kind, url, subj, obj))]

NoFrame == [BlankFrame("none", "", 0, 0) EXCEPT !.attempt = 0]

\* const tripleId = calculateTripleId(contributorAtomId, PREDICATE, projectAtomId)
TripleIdOfFrame(f) ==
    calculateTripleId(f.subj, WAS_ASSOCIATED_WITH_PREDICATE_ID, f.obj)

\* First statement of the function handed to withRetry.
BodyStart(kind) == IF kind \in {"generic", "client"} THEN "fn" ELSE "lookup"

\* The text in front of the wrapped message in the catch block that encloses
\* the create / deposit part of the body.
FailurePrefix(f) ==
    IF f.kind = "project" THEN "Failed to create project atom"
    ELSE IF f.kind = "contributor" THEN "Failed to create contributor atom"
    ELSE IF f.tripleExists THEN "Failed to deposit to triple"
    ELSE "Failed to create triple"

\* Variant of BodyThrows without the catch blocks of the ensurers: the error
\* leaves the body as the gateway threw it.
BodyThrowsUnwrapped(f, step, e) == e

\* Variant of BodyThrows in which the funds check of the triple ensurer sits
\* inside the try block as well.
BodyThrowsAlwaysWrapped(f, step, e) ==
    TransactionFailedError(<<FailurePrefix(f)>> \o ErrorMessage(e))

\* The error that leaves the body when `step` throws e.  In the atom
\* ensurers the funds check, the create and the confirmation wait all sit in
\* one try block; in the triple ensurer the funds check precedes the try.
BodyThrows(f, step, e) ==
    IF ~IsAtomKind(f.kind) /\ step = "funds" THEN e
    ELSE TransactionFailedError(<<FailurePrefix(f)>> \o ErrorMessage(e))

\* Variant of ensureSufficientBalance that wants more than the amount.
ensureSufficientBalanceStrict(bal, requiredAmount) ==
    IF bal <= requiredAmount
    THEN <<InsufficientFundsError(<<"Insufficient balance">>)>>
    ELSE <<>>

\* client.ensureSufficientBalance(requiredAmount), the balance being known:
\* the error it throws, or <<>>.
ensureSufficientBalance(bal, requiredAmount) ==
    IF bal < requiredAmount
    THEN <<InsufficientFundsError(<<"Insufficient balance">>)>>
    ELSE <<>>

\* The ledger's identifier of the resource the frame is about.
KeyOf(f) ==
    IF IsAtomKind(f.kind) THEN AtomIdOf(f.url)
    ELSE IF f.kind = "triple" THEN TripleIdOfFrame(f)
    ELSE ZeroHex

AtomIds == { AtomIdOf(Urls[i]) : i \in 1..Len(Urls) }

Keys ==
    {ZeroHex} \cup AtomIds \cup
    { calculateTripleId(s, WAS_ASSOCIATED_WITH_PREDICATE_ID, AtomIdOf(ProjectUrl)) :
        s \in AtomIds }

HasOp(f, names) == \E i \in 1..Len(f.ops) : f.ops[i] \in names

\* The record kept of a finished ensure call: res is <<outcome>> when it
\* returned, err is <<error>> when it threw, txHash the hash of the
\* transaction its last attempt had accepted ('0x0': none).
CallRecord(f, res, err) ==
    [idx |-> idx, kind |-> f.kind, key |-> KeyOf(f), name |-> f.name,
     attempts |-> f.attempt,
     invoked |-> f.invoked, lookupOk |-> f.lookupOk,
     absent |-> f.absent,
     created |-> HasOp(f, {"create:ok", "create:dup", "create:fail"}),
     deposited |-> HasOp(f, {"deposit:ok", "deposit:fail"}),
     txHash |-> f.txHash, res |-> res, err |-> err]

\* The last two calls on a resource, the newest last.
Remember(hist, rec) ==
    [hist EXCEPT ![rec.key] = IF Len(@) < 2 THEN Append(@, rec)
                              ELSE <<@[2], rec>>]

Finish(f, res, err) ==
    /\ calls' = Append(calls, CallRecord(f, res, err))
    /\ recent' = Remember(recent, CallRecord(f, res, err))

\* The body returns `outcome`: withRetry returns it at once.
Return(f, outcome) ==
    /\ pc' = "ensured"
    /\ ret' = <<outcome>>
    /\ thrown' = <<>>
    /\ ens' = f
    /\ Finish(f, <<outcome>>, <<>>)

\* The body throws e: control is in the catch block of withRetry.
Throw(f, e) ==
    /\ pc' = "caught"
    /\ thrown' = <<e>>
    /\ ens' = [f EXCEPT !.errs = Append(@, e)]
    /\ UNCHANGED <<ret, calls, recent>>

\* The gateway throws e in `step` of the body: the error that leaves the
\* body is in the catch block of withRetry.
Fail(f, step, e) ==
    Throw([f EXCEPT !.raw = Append(@, [step |-> step, error |-> e,
                                       attempt |-> f.attempt])],
          BodyThrows(f, step, e))

(* ----------------------------- the ensurers --------------------------- *)

\* Variant of ExistingAtomOutcome that reports the deposit as cost.
ExistingAtomOutcomeCharged(atomId) ==
    [id |-> atomId, txHash |-> ZeroHex, cost |-> MinDeposit, existed |-> TRUE]

\* What the atom ensurers return for an atom the lookup has found.
ExistingAtomOutcome(atomId) ==
    [id |-> atomId, txHash |-> ZeroHex, cost |-> 0, existed |-> TRUE]

\* Variant of FoundTriple that never reports a hit.
FoundTripleNever(f) == FALSE

\* existingTriples.length > 0 && existingTriples[0].term_id, for a lookup
\* that succeeds.
FoundTriple(f) == <<f.subj, f.obj>> \in triples

\* The frame as the body starts an attempt and issues its lookup.
Looking(f) ==
    [f EXCEPT !.invoked = @ + 1, !.tripleExists = FALSE,
              !.txHash = ZeroHex, !.ops = Append(@, "find")]

\* Variant of LookupFailed without the catch around the lookup: the error of
\* the lookup leaves the body.
LookupFailedThrows(f) ==
    /\ faults < MaxFaults
    /\ faults' = faults + 1
    /\ blind' = [blind EXCEPT ![KeyOf(f)] = @ + 1]
    /\ log' = log
    /\ Throw([Looking(f) EXCEPT !.lookupOk = FALSE],
             NetworkError(<<"Failed to find">>))

\* The lookup threw: core.warning(...), and the body goes on.
LookupFailed(f) ==
    /\ faults < MaxFaults
    /\ faults' = faults + 1
    /\ blind' = [blind EXCEPT ![KeyOf(f)] = @ + 1]
    /\ log' = Append(log, LogEvent("warning", "lookup"))
    /\ pc' = "funds"
    /\ ens' = [Looking(f) EXCEPT
                  !.lookupOk = FALSE,
                  !.ops = Append(@, "warning"),
                  !.raw = Append(@, [step |-> "lookup",
                                     error |-> PlainError(<<"Network error">>),
                                     attempt |-> f.attempt])]
    /\ UNCHANGED <<ret, thrown, calls, recent>>

\* Variant of LookupAtom that checks the funds before it returns an atom the
\* lookup has found.
LookupAtomChecksFunds ==
    /\ pc = "lookup"
    /\ IsAtomKind(ens.kind)
    /\ \/ /\ ens.url \in atoms
          /\ LET f == [Looking(ens) EXCEPT !.ops = Append(@, "balance")]
                 short == ensureSufficientBalance(balance, MinDeposit)
             IN  IF short # <<>>
                 THEN Fail(f, "funds", short[1])
                 ELSE Return(f, ExistingAtomOutcome(AtomIdOf(ens.url)))
          /\ UNCHANGED <<faults, blind, log>>
       \/ /\ ens.url \notin atoms
          /\ pc' = "funds"
          /\ ens' = Looking(ens)
          /\ UNCHANGED <<ret, thrown, calls, recent, faults, blind, log>>
       \/ LookupFailed(ens)
    /\ UNCHANGED <<creates, runVars, loopVars, ledgerVars>>

\* findAtomIds([atomData.url]) and what follows it directly.
LookupAtom ==
    /\ pc = "lookup"
    /\ IsAtomKind(ens.kind)
    /\ \/ /\ ens.url \in atoms
          /\ Return(Looking(ens), ExistingAtomOutcome(AtomIdOf(ens.url)))
          /\ UNCHANGED <<faults, blind, log>>
       \/ /\ ens.url \notin atoms
          /\ pc' = "funds"
          /\ ens' = Looking(ens)
          /\ UNCHANGED <<ret, thrown, calls, recent, faults, blind, log>>
       \/ LookupFailed(ens)
    /\ UNCHANGED <<creates, runVars, loopVars, ledgerVars>>

\* findTripleIds(address, [[subject, predicate, object]]) and what follows.
LookupTriple ==
    /\ pc = "lookup"
    /\ ens.kind = "triple"
    /\ \/ /\ pc' = "funds"
          /\ ens' = [Looking(ens) EXCEPT !.tripleExists = FoundTriple(ens)]
          /\ UNCHANGED <<ret, thrown, calls, recent, faults, blind, log>>
       \/ LookupFailed(ens)
    /\ UNCHANGED <<creates, runVars, loopVars, ledgerVars>>

\* const minDeposit = client.getMinDeposit()
\* await client.ensureSufficientBalance(minDeposit)
CheckFunds ==
    /\ pc = "funds"
    /\ LET f == [ens EXCEPT !.ops = Append(@, "balance")]
           short == ensureSufficientBalance(balance, MinDeposit)
       IN  \/ /\ faults < MaxFaults
              /\ faults' = faults + 1
              /\ Fail(f, "funds", NetworkError(<<"Failed to check balance">>))
           \/ /\ short # <<>>
              /\ Fail(f, "funds", short[1])
              /\ UNCHANGED faults
           \/ /\ short = <<>>
              /\ pc' = "submit"
              /\ ens' = f
              /\ UNCHANGED <<ret, thrown, calls, recent, faults>>
    /\ UNCHANGED <<creates, blind, log, runVars, loopVars, ledgerVars>>

\* Variant of Submit that sends a create whether or not the lookup has found
\* the resource.
SubmitAlwaysCreates ==
    /\ pc = "submit"
    /\ LET op == "create"
           dup == OnLedger(ens)
           reached == [creates EXCEPT ![KeyOf(ens)] = @ + 1]
       IN  \/ /\ faults < MaxFaults
              /\ faults' = faults + 1
              /\ Fail([ens EXCEPT !.ops = Append(@, op \o ":fail")],
                      "submit", PlainError(<<"request failed">>))
              /\ UNCHANGED <<creates, ledgerVars>>
           \/ /\ dup
              /\ Fail([ens EXCEPT !.ops = Append(@, op \o ":dup")],
                      "submit", PlainError(<<"already exists">>))
              /\ creates' = reached
              /\ UNCHANGED <<faults, ledgerVars>>
           \/ /\ ~dup
              /\ txCount' = txCount + 1
              /\ balance' = balance - MinDeposit
              /\ atoms' = IF IsAtomKind(ens.kind) THEN atoms \cup {ens.url} ELSE atoms
              /\ triples' = IF IsAtomKind(ens.kind) THEN triples
                            ELSE triples \cup {<<ens.subj, ens.obj>>}
              /\ creates' = reached
              /\ pc' = "confirm"
              /\ ens' = [ens EXCEPT !.ops = Append(@, op \o ":ok"),
                                    !.txHash = TxHashOf(txCount + 1)]
              /\ UNCHANGED <<ret, thrown, calls, recent, faults>>
    /\ UNCHANGED <<blind, log, runVars, loopVars>>

\* createAtomFromThing / createTripleStatement / deposit.  A create of a
\* resource the ledger already holds is rejected by the ledger.
Submit ==
    /\ pc = "submit"
    /\ LET op == IF ens.tripleExists THEN "deposit" ELSE "create"
           dup == op = "create" /\ OnLedger(ens)
           reached == [creates EXCEPT ![KeyOf(ens)] = IF op = "create" THEN @ + 1 ELSE @]
       IN  \/ /\ faults < MaxFaults
              /\ faults' = faults + 1
              /\ Fail([ens EXCEPT !.ops = Append(@, op \o ":fail")],
                      "submit", PlainError(<<"request failed">>))
              /\ UNCHANGED <<creates, ledgerVars>>
           \/ /\ dup
              /\ Fail([ens EXCEPT !.ops = Append(@, op \o ":dup")],
                      "submit", PlainError(<<"already exists">>))
              /\ creates' = reached
              /\ UNCHANGED <<faults, ledgerVars>>
           \/ /\ ~dup
              /\ txCount' = txCount + 1
              /\ balance' = balance - MinDeposit
              /\ atoms' = IF IsAtomKind(ens.kind) THEN atoms \cup {ens.url} ELSE atoms
              /\ triples' = IF IsAtomKind(ens.kind) THEN triples
                            ELSE triples \cup {<<ens.subj, ens.obj>>}
              /\ creates' = reached
              /\ pc' = "confirm"
              /\ ens' = [ens EXCEPT !.ops = Append(@, op \o ":ok"),
                                    !.txHash = TxHashOf(txCount + 1)]
              /\ UNCHANGED <<ret, thrown, calls, recent, faults>>
    /\ UNCHANGED <<blind, log, runVars, loopVars>>

\* Variant of ConfirmedOutcome that reports no cost for a deposit.
ConfirmedOutcomeFreeDeposit(f) ==
    [id |-> KeyOf(f), txHash |-> f.txHash,
     cost |-> IF f.tripleExists THEN 0 ELSE MinDeposit,
     existed |-> f.tripleExists]

\* Variant of ConfirmedOutcome that reports the '0x0' hash for a deposit.
ConfirmedOutcomeSentinelHash(f) ==
    [id |-> KeyOf(f),
     txHash |-> IF f.tripleExists THEN ZeroHex ELSE f.txHash,
     cost |-> MinDeposit, existed |-> f.tripleExists]

\* What an ensurer returns once its transaction is confirmed:
\* { id, txHash: txResult.hash, cost: minDeposit, existed }.
ConfirmedOutcome(f) ==
    [id |-> KeyOf(f), txHash |-> f.txHash, cost |-> MinDeposit,
     existed |-> f.tripleExists]

\* Variant of Confirm that returns the outcome whether or not the wait for
\* the confirmation has failed.
ConfirmUnawaited ==
    /\ pc = "confirm"
    /\ LET f == [ens EXCEPT !.ops = Append(@, "confirm")]
       IN  \/ /\ faults < MaxFaults
              /\ faults' = faults + 1
              /\ Return([f EXCEPT !.raw = Append(@,
                            [step |-> "confirm",
                             error |-> NetworkError(<<"Failed to confirm transaction">>),
                             attempt |-> f.attempt])],
                        ConfirmedOutcome(f))
           \/ /\ Return(f, ConfirmedOutcome(f))
              /\ UNCHANGED faults
    /\ UNCHANGED <<creates, blind, log, runVars, loopVars, ledgerVars>>

\* client.waitForConfirmation(result.transactionHash) and the return.
Confirm ==
    /\ pc = "confirm"
    /\ LET f == [ens EXCEPT !.ops = Append(@, "confirm")]
       IN  \/ /\ faults < MaxFaults
              /\ faults' = faults + 1
              /\ Fail(f, "confirm",
                      NetworkError(<<"Failed to confirm transaction">>))
           \/ /\ Return(f, ConfirmedOutcome(f))
              /\ UNCHANGED faults
    /\ UNCHANGED <<creates, blind, log, runVars, loopVars, ledgerVars>>

\* core.warning(`Attempt ${attempt}/${maxAttempts} failed:
\* ${lastError.message}. Retrying in ${currentDelay}ms...`)
RetryWarning(e, attempt) ==
    [attempt |-> attempt, maxAttempts |-> maxAttempts,
     message |-> LastErrorOf(e).message,
     delay |-> CurrentDelay(backoff, attempt)]

\* Variant of RetryCatch that logs the warning before it tests whether the
\* attempt was the last one.
RetryCatchWarnsOnLast ==
    /\ pc = "caught"
    /\ LET e == thrown[1]
           d == RetryDecision(e, ens.attempt, maxAttempts)
           warned == [ens EXCEPT
                         !.warnings = Append(@, RetryWarning(e, ens.attempt)),
                         !.ops = Append(@, "warning")]
       IN  \/ /\ d = "throw"
              /\ pc' = "ensureRaised"
              /\ Finish(ens, <<>>, <<e>>)
              /\ UNCHANGED <<thrown, ens, log>>
           \/ /\ d = "break"
              /\ pc' = "ensureRaised"
              /\ thrown' = <<LastErrorOf(e)>>
              /\ Finish(warned, <<>>, <<LastErrorOf(e)>>)
              /\ ens' = warned
              /\ log' = Append(log, LogEvent("warning", "retry"))
           \/ /\ d = "retry"
              /\ pc' = "sleep"
              /\ ens' = [warned EXCEPT
                            !.delays = Append(@, CurrentDelay(backoff, ens.attempt))]
              /\ log' = Append(log, LogEvent("warning", "retry"))
              /\ UNCHANGED <<thrown, calls, recent>>
    /\ UNCHANGED <<ret, faults, creates, blind, runVars, loopVars, ledgerVars>>

\* The catch block of withRetry, and the throw after the loop.
RetryCatch ==
    /\ pc = "caught"
    /\ LET e == thrown[1]
           d == RetryDecision(e, ens.attempt, maxAttempts)
       IN  \/ /\ d = "throw"
              /\ pc' = "ensureRaised"
              /\ Finish(ens, <<>>, <<e>>)
              /\ UNCHANGED <<thrown, ens, log>>
           \/ /\ d = "break"
              /\ pc' = "ensureRaised"
              /\ thrown' = <<LastErrorOf(e)>>
              /\ Finish(ens, <<>>, <<LastErrorOf(e)>>)
              /\ UNCHANGED <<ens, log>>
           \/ /\ d = "retry"
              /\ pc' = "sleep"
              /\ ens' = [ens EXCEPT
                            !.delays = Append(@, CurrentDelay(backoff, ens.attempt)),
                            !.warnings = Append(@, RetryWarning(e, ens.attempt)),
                            !.ops = Append(@, "warning")]
              /\ log' = Append(log, LogEvent("warning", "retry"))
              /\ UNCHANGED <<thrown, calls, recent>>
    /\ UNCHANGED <<ret, faults, creates, blind, runVars, loopVars, ledgerVars>>

\* Variant of RetrySleep in which the loop does not advance its counter.
RetrySleepSameAttempt ==
    /\ pc = "sleep"
    /\ pc' = BodyStart(ens.kind)
    /\ ens' = [ens EXCEPT !.ops = Append(@, "sleep")]
    /\ thrown' = <<>>
    /\ UNCHANGED <<ret, histVars, faults, runVars, loopVars, ledgerVars>>

\* await sleep(currentDelay); attempt++
RetrySleep ==
    /\ pc = "sleep"
    /\ pc' = BodyStart(ens.kind)
    /\ ens' = [ens EXCEPT !.attempt = @ + 1, !.ops = Append(@, "sleep")]
    /\ thrown' = <<>>
    /\ UNCHANGED <<ret, histVars, faults, runVars, loopVars, ledgerVars>>

(* --------------------------- the orchestrator ------------------------- *)

\* const summary: AttestationSummary = {...}
NewSummary(cs) ==
    [projectAtomId |-> ZeroHex, projectAtomTxHash |-> <<>>,
     contributorCount |-> Len(cs), attestationsCreated |-> 0,
     attestationsUpdated |-> 0, transactionHashes |-> <<>>,
     totalCost |-> 0, results |-> <<>>]

\* Variant of PushHash that pushes the hash of every outcome.
PushHashUnfiltered(hashes, r) ==
    IF r # <<>> THEN Append(hashes, r[1].txHash) ELSE hashes

\* txHash && txHash !== '0x0' ? push : skip
PushHash(hashes, r) ==
    IF r # <<>> /\ r[1].txHash # ZeroHex THEN Append(hashes, r[1].txHash)
    ELSE hashes

\* result?.cost || 0n
CostOf(r) == IF r = <<>> THEN 0 ELSE r[1].cost

\* Step 1 of processAttestations, after ensureProjectAtom has returned r.
RecordProject(s, r) ==
    [s EXCEPT !.projectAtomId = r.id,
              !.transactionHashes = PushHash(@, <<r>>),
              !.projectAtomTxHash = IF r.txHash # ZeroHex THEN <<r.txHash>> ELSE @,
              !.totalCost = @ + r.cost]

\* Variant of RecordResult that counts a contributor whatever its success.
RecordResultCountsFailures(s, result) ==
    LET pushed == [s EXCEPT !.results = Append(@, result)]
        existed == result.tripleResult # <<>> /\ result.tripleResult[1].existed
        counted == [pushed EXCEPT
                      !.attestationsUpdated = IF existed THEN @ + 1 ELSE @,
                      !.attestationsCreated = IF existed THEN @ ELSE @ + 1]
    IN  IF result.success
        THEN [counted EXCEPT
                !.transactionHashes =
                    PushHash(PushHash(@, result.atomResult), result.tripleResult),
                !.totalCost =
                    @ + CostOf(result.atomResult) + CostOf(result.tripleResult)]
        ELSE counted

\* Variant of RecordResult that tallies by the subject's existed flag.
RecordResultBySubject(s, result) ==
    LET pushed == [s EXCEPT !.results = Append(@, result)]
        existed == result.atomResult # <<>> /\ result.atomResult[1].existed
    IN  IF result.success
        THEN [pushed EXCEPT
                !.transactionHashes =
                    PushHash(PushHash(@, result.atomResult), result.tripleResult),
                !.totalCost =
                    @ + CostOf(result.atomResult) + CostOf(result.tripleResult),
                !.attestationsUpdated = IF existed THEN @ + 1 ELSE @,
                !.attestationsCreated = IF existed THEN @ ELSE @ + 1]
        ELSE pushed

\* Variant of RecordResult that puts the newest result first.
RecordResultPrepends(s, result) ==
    LET pushed == [s EXCEPT !.results = <<result>> \o @]
        existed == result.tripleResult # <<>> /\ result.tripleResult[1].existed
    IN  IF result.success
        THEN [pushed EXCEPT
                !.transactionHashes =
                    PushHash(PushHash(@, result.atomResult), result.tripleResult),
                !.totalCost =
                    @ + CostOf(result.atomResult) + CostOf(result.tripleResult),
                !.attestationsUpdated = IF existed THEN @ + 1 ELSE @,
                !.attestationsCreated = IF existed THEN @ ELSE @ + 1]
        ELSE pushed

\* Variant of RecordResult that pushes the relationship's hash first.
RecordResultTripleHashFirst(s, result) ==
    LET pushed == [s EXCEPT !.results = Append(@, result)]
        existed == result.tripleResult # <<>> /\ result.tripleResult[1].existed
    IN  IF result.success
        THEN [pushed EXCEPT
                !.transactionHashes =
                    PushHash(PushHash(@, result.tripleResult), result.atomResult),
                !.totalCost =
                    @ + CostOf(result.atomResult) + CostOf(result.tripleResult),
                !.attestationsUpdated = IF existed THEN @ + 1 ELSE @,
                !.attestationsCreated = IF existed THEN @ ELSE @ + 1]
        ELSE pushed

\* Variant of RecordResult that leaves the relationship's cost out.
RecordResultAtomCostOnly(s, result) ==
    LET pushed == [s EXCEPT !.results = Append(@, result)]
        existed == result.tripleResult # <<>> /\ result.tripleResult[1].existed
    IN  IF result.success
        THEN [pushed EXCEPT
                !.transactionHashes =
                    PushHash(PushHash(@, result.atomResult), result.tripleResult),
                !.totalCost = @ + CostOf(result.atomResult),
                !.attestationsUpdated = IF existed THEN @ + 1 ELSE @,
                !.attestationsCreated = IF existed THEN @ ELSE @ + 1]
        ELSE pushed

\* Variant of RecordResult that counts the cost of created resources only.
RecordResultNewOnly(s, result) ==
    LET pushed == [s EXCEPT !.results = Append(@, result)]
        existed == result.tripleResult # <<>> /\ result.tripleResult[1].existed
    IN  IF result.success
        THEN [pushed EXCEPT
                !.transactionHashes =
                    PushHash(PushHash(@, result.atomResult), result.tripleResult),
                !.totalCost =
                    @ + CostOf(result.atomResult)
                      + (IF existed THEN 0 ELSE CostOf(result.tripleResult)),
                !.attestationsUpdated = IF existed THEN @ + 1 ELSE @,
                !.attestationsCreated = IF existed THEN @ ELSE @ + 1]
        ELSE pushed

\* The body of the for loop after processContributor has returned result.
RecordResult(s, result) ==
    LET pushed == [s EXCEPT !.results = Append(@, result)]
    IN  IF result.success
        THEN [pushed EXCEPT
                !.transactionHashes =
                    PushHash(PushHash(@, result.atomResult), result.tripleResult),
                !.totalCost =
                    @ + CostOf(result.atomResult) + CostOf(result.tripleResult),
                !.attestationsUpdated =
                    IF result.tripleResult # <<>> /\ result.tripleResult[1].existed
                    THEN @ + 1 ELSE @,
                !.attestationsCreated =
                    IF result.tripleResult # <<>> /\ result.tripleResult[1].existed
                    THEN @ ELSE @ + 1]
        ELSE pushed

\* Variant of CatchAttestations that wraps every error.
CatchAttestationsAlwaysWraps(e) ==
    ActionError(<<"Failed to process attestations">> \o ErrorMessage(e), FALSE)

\* Variant of CatchAttestations that rethrows every error as it is.
CatchAttestationsRethrows(e) == e

\* The catch block of processAttestations.
CatchAttestations(e) ==
    IF IsActionError(e) THEN e
    ELSE ActionError(<<"Failed to process attestations">> \o ErrorMessage(e), FALSE)

\* Variant of StartRun that, given no contributors, returns the fresh summary
\* without ensuring the project atom.
StartRunSkipsProject(cs) ==
    /\ pc \in {"idle", "returned", "raised"}
    /\ reserved + 1 + (2 * Len(cs)) <= MaxCalls
    /\ reserved' = reserved + 1 + (2 * Len(cs))
    /\ contributors' = cs
    /\ summary' = NewSummary(cs)
    /\ projectAtomResult' = <<>>
    /\ atomResult' = <<>>
    /\ idx' = 0
    /\ ret' = <<>>
    /\ thrown' = <<>>
    /\ IF cs = <<>>
       THEN /\ ens' = NoFrame
            /\ returned' = <<NewSummary(cs)>>
            /\ pc' = "returned"
       ELSE /\ ens' = [NewFrame("project", Repository.url, 0, 0) EXCEPT
                            !.name = Repository.fullName]
            /\ returned' = <<>>
            /\ pc' = "lookup"
    /\ calls' = <<>>
    /\ log' = <<>>
    /\ UNCHANGED <<failureMode, maxAttempts, backoff, recent, creates, blind, faults,
                   run, fetch, ledgerVars>>

\* processAttestations is called: the summary is initialised and
\* ensureProjectAtom is entered.
StartRun(cs) ==
    /\ pc \in {"idle", "returned", "raised"}
    /\ reserved + 1 + (2 * Len(cs)) <= MaxCalls
    /\ reserved' = reserved + 1 + (2 * Len(cs))
    /\ contributors' = cs
    /\ summary' = NewSummary(cs)
    /\ projectAtomResult' = <<>>
    /\ atomResult' = <<>>
    /\ idx' = 0
    /\ returned' = <<>>
    /\ ret' = <<>>
    /\ thrown' = <<>>
    /\ ens' = [NewFrame("project", Repository.url, 0, 0) EXCEPT
                    !.name = Repository.fullName]
    /\ pc' = "lookup"
    /\ calls' = <<>>
    /\ log' = <<>>
    /\ UNCHANGED <<failureMode, maxAttempts, backoff, recent, creates, blind, faults,
                   run, fetch, ledgerVars>>

\* Variant of ProjectEnsured that ensures the project atom a second time
\* before it enters the loop.
ProjectEnsuredAgain ==
    /\ pc = "ensured"
    /\ ens.kind = "project"
    /\ summary' = RecordProject(summary, ret[1])
    /\ projectAtomResult' = ret
    /\ ret' = <<>>
    /\ IF Len(calls) = 1
       THEN /\ idx' = idx
            /\ ens' = [NewFrame("project", Repository.url, 0, 0) EXCEPT
                            !.name = Repository.fullName]
            /\ pc' = "lookup"
       ELSE /\ idx' = 1
            /\ ens' = NoFrame
            /\ pc' = "loop"
    /\ UNCHANGED <<atomResult, returned, thrown, histVars, faults, runVars,
                   ledgerVars>>

\* ensureProjectAtom returned: summary.projectAtomId ... totalCost += cost.
ProjectEnsured ==
    /\ pc = "ensured"
    /\ ens.kind = "project"
    /\ summary' = RecordProject(summary, ret[1])
    /\ projectAtomResult' = ret
    /\ idx' = 1
    /\ ret' = <<>>
    /\ ens' = NoFrame
    /\ pc' = "loop"
    /\ UNCHANGED <<atomResult, returned, thrown, histVars, faults, runVars,
                   ledgerVars>>

\* Variant of ProjectFailed that, with failureMode 'warn', swallows the error
\* and returns the summary.
ProjectFailedSwallowed ==
    /\ pc = "ensureRaised"
    /\ ens.kind = "project"
    /\ IF failureMode = "warn"
       THEN /\ thrown' = <<>>
            /\ returned' = <<summary>>
            /\ pc' = "returned"
       ELSE /\ thrown' = <<CatchAttestations(thrown[1])>>
            /\ pc' = "raised"
            /\ UNCHANGED returned
    /\ ens' = NoFrame
    /\ UNCHANGED <<ret, histVars, faults, runVars, summary, projectAtomResult,
                   idx, atomResult, ledgerVars>>

\* ensureProjectAtom threw: the catch block of processAttestations.
ProjectFailed ==
    /\ pc = "ensureRaised"
    /\ ens.kind = "project"
    /\ thrown' = <<CatchAttestations(thrown[1])>>
    /\ ens' = NoFrame
    /\ pc' = "raised"
    /\ UNCHANGED <<ret, histVars, faults, runVars, loopVars, ledgerVars>>

\* for (const contributor of contributors): processContributor is entered
\* and calls ensureContributorAtom.
ContributorStart ==
    /\ pc = "loop"
    /\ idx <= Len(contributors)
    /\ atomResult' = <<>>
    /\ ens' = [NewFrame("contributor", contributors[idx].profileUrl, 0, 0) EXCEPT
                    !.name = contributors[idx].name]
    /\ pc' = "lookup"
    /\ UNCHANGED <<summary, projectAtomResult, idx, returned, ret, thrown,
                   histVars, faults, runVars, ledgerVars>>

\* ensureContributorAtom returned: ensureAttestationTriple is called.
AtomEnsured ==
    /\ pc = "ensured"
    /\ ens.kind = "contributor"
    /\ atomResult' = ret
    /\ ens' = NewFrame("triple", "", ret[1].id, projectAtomResult[1].id)
    /\ ret' = <<>>
    /\ pc' = "lookup"
    /\ UNCHANGED <<summary, projectAtomResult, idx, returned, thrown,
                   histVars, faults, runVars, ledgerVars>>

\* ensureAttestationTriple returned: processContributor returns a success
\* and the loop body records it.
TripleEnsured ==
    /\ pc = "ensured"
    /\ ens.kind = "triple"
    /\ summary' = RecordResult(summary,
            [contributor |-> contributors[idx], atomResult |-> atomResult,
             tripleResult |-> ret, success |-> TRUE, error |-> <<>>])
    /\ idx' = idx + 1
    /\ ret' = <<>>
    /\ ens' = NoFrame
    /\ pc' = "loop"
    /\ UNCHANGED <<projectAtomResult, atomResult, returned, thrown,
                   histVars, faults, runVars, ledgerVars>>

\* Variants of Rethrows: the failure mode is not consulted.
RethrowsNever(mode) == FALSE

RethrowsAlways(mode) == TRUE

\* if (failureMode === 'fail') ... throw error
Rethrows(mode) == mode = "fail"

\* Variant of FailureLogLevel with the two levels exchanged.
FailureLogLevelSwapped(mode) == IF mode = "fail" THEN "warning" ELSE "error"

\* if (failureMode === 'fail') core.error(...) else core.warning(...)
FailureLogLevel(mode) == IF mode = "fail" THEN "error" ELSE "warning"

\* Variant of ContributorFailed that, when the triple call has failed, takes
\* the contributor's atom off the ledger again.
ContributorFailedReverts ==
    /\ pc = "ensureRaised"
    /\ ens.kind \in {"contributor", "triple"}
    /\ \/ /\ Rethrows(failureMode)
          /\ thrown' = <<CatchAttestations(thrown[1])>>
          /\ pc' = "raised"
          /\ UNCHANGED <<summary, idx>>
       \/ /\ ~Rethrows(failureMode)
          /\ summary' = RecordResult(summary,
                [contributor |-> contributors[idx], atomResult |-> <<>>,
                 tripleResult |-> <<>>, success |-> FALSE,
                 error |-> <<ErrorMessage(thrown[1])>>])
          /\ idx' = idx + 1
          /\ thrown' = <<>>
          /\ pc' = "loop"
    /\ ens' = NoFrame
    /\ atoms' = IF ens.kind = "triple"
                THEN atoms \ {contributors[idx].profileUrl} ELSE atoms
    /\ log' = Append(log, LogEvent(FailureLogLevel(failureMode), "contributor"))
    /\ UNCHANGED <<projectAtomResult, atomResult, returned, ret, calls,
                   recent, creates, blind, faults, runVars, triples, balance,
                   txCount>>

\* Variant of ContributorFailed whose failed result keeps the atom result
\* obtained before the failure.
ContributorFailedKeepsAtom ==
    /\ pc = "ensureRaised"
    /\ ens.kind \in {"contributor", "triple"}
    /\ \/ /\ Rethrows(failureMode)
          /\ thrown' = <<CatchAttestations(thrown[1])>>
          /\ pc' = "raised"
          /\ UNCHANGED <<summary, idx>>
       \/ /\ ~Rethrows(failureMode)
          /\ summary' = RecordResult(summary,
                [contributor |-> contributors[idx], atomResult |-> atomResult,
                 tripleResult |-> <<>>, success |-> FALSE,
                 error |-> <<ErrorMessage(thrown[1])>>])
          /\ idx' = idx + 1
          /\ thrown' = <<>>
          /\ pc' = "loop"
    /\ ens' = NoFrame
    /\ log' = Append(log, LogEvent(FailureLogLevel(failureMode), "contributor"))
    /\ UNCHANGED <<projectAtomResult, atomResult, returned, ret, calls,
                   recent, creates, blind, faults, runVars, ledgerVars>>

\* The catch block of processContributor: the failure is logged, then
\* rethrown or turned into a failed result.
ContributorFailed ==
    /\ pc = "ensureRaised"
    /\ ens.kind \in {"contributor", "triple"}
    /\ \/ /\ Rethrows(failureMode)
          /\ thrown' = <<CatchAttestations(thrown[1])>>
          /\ pc' = "raised"
          /\ UNCHANGED <<summary, idx>>
       \/ /\ ~Rethrows(failureMode)
          /\ summary' = RecordResult(summary,
                [contributor |-> contributors[idx], atomResult |-> <<>>,
                 tripleResult |-> <<>>, success |-> FALSE,
                 error |-> <<ErrorMessage(thrown[1])>>])
          /\ idx' = idx + 1
          /\ thrown' = <<>>
          /\ pc' = "loop"
    /\ ens' = NoFrame
    /\ log' = Append(log, LogEvent(FailureLogLevel(failureMode), "contributor"))
    /\ UNCHANGED <<projectAtomResult, atomResult, returned, ret, calls,
                   recent, creates, blind, faults, runVars, ledgerVars>>

\* return summary
ReturnSummary ==
    /\ pc = "loop"
    /\ idx > Len(contributors)
    /\ returned' = <<summary>>
    /\ pc' = "returned"
    /\ UNCHANGED <<summary, projectAtomResult, idx, atomResult, ens, ret,
                   thrown, histVars, faults, runVars, ledgerVars>>

(* --------------------------- specification ---------------------------- *)

InitialBalances == {0, MinDeposit, 2 * MinDeposit, MaxBalance}

Init ==
    /\ pc = "idle"
    /\ contributors = <<>>
    /\ failureMode \in {"fail", "warn"}
    /\ maxAttempts \in 1..MaxAttempts
    /\ backoff = ActionBackoff
    /\ summary = NewSummary(<<>>)
    /\ projectAtomResult = <<>>
    /\ idx = 0
    /\ atomResult = <<>>
    /\ ens = NoFrame
    /\ ret = <<>>
    /\ thrown = <<>>
    /\ returned = <<>>
    /\ atoms = {}
    /\ triples = {}
    /\ balance \in InitialBalances
    /\ txCount = 0
    /\ faults = 0
    /\ reserved = 0
    /\ calls = <<>>
    /\ recent = [k \in Keys |-> <<>>]
    /\ creates = [k \in Keys |-> 0]
    /\ blind = [k \in Keys |-> 0]
    /\ log = <<>>
    /\ run = NoRun
    /\ fetch = NoFetch

Next ==
    \/ \E cs \in ContributorLists : StartRun(cs)
    \/ LookupAtom
    \/ LookupTriple
    \/ CheckFunds
    \/ Submit
    \/ Confirm
    \/ RetryCatch
    \/ RetrySleep
    \/ ProjectEnsured
    \/ ProjectFailed
    \/ ContributorStart
    \/ AtomEnsured
    \/ TripleEnsured
    \/ ContributorFailed
    \/ ReturnSummary

Spec == Init /\ [][Next]_vars

(* ------------- one run in which every await is answered --------------- *)

\* processAttestations is called once.
StartOnce ==
    /\ pc = "idle"
    /\ \E cs \in ContributorLists : StartRun(cs)

\* A step of the run in progress: a gateway call returns or fails, or the
\* code between two awaits runs.
RunStep ==
    \/ LookupAtom
    \/ LookupTriple
    \/ CheckFunds
    \/ Submit
    \/ Confirm
    \/ RetryCatch
    \/ RetrySleep
    \/ ProjectEnsured
    \/ ProjectFailed
    \/ ContributorStart
    \/ AtomEnsured
    \/ TripleEnsured
    \/ ContributorFailed
    \/ ReturnSummary

NextOnce == StartOnce \/ RunStep

\* Every promise the run awaits settles and the event loop then resumes the
\* run: a step that stays possible is taken.
SpecOnce == Init /\ [][NextOnce]_vars /\ WF_vars(RunStep)

(* ------------------ withRetry on an arbitrary function ---------------- *)

\* What an arbitrary fn may throw: classified errors of either retryability,
\* an unclassified Error, and a value that is no Error.
FnErrors ==
    { NetworkError(<<"Network timeout">>),
      InvalidInputError(<<"Invalid input">>),
      InsufficientFundsError(<<"Insufficient balance">>),
      TransactionFailedError(<<"Transaction reverted">>),
      ActionErrorDefault(<<"Action error">>),
      ActionError(<<"Action error, retryable">>, TRUE),
      GitHubAPIError(<<"API error">>, 0),
      GitHubAPIError(<<"rate limited">>, 500),
      GitHubAPIError(<<"forbidden">>, 403),
      GitHubAPIError(<<"not found">>, 404),
      PlainError(<<"socket hang up">>),
      NonErrorValue(<<"string error">>) }

\* return await fn(), for an fn that touches no ledger.
GenericFn ==
    /\ pc = "fn"
    /\ ens.kind = "generic"
    /\ LET f == [ens EXCEPT !.invoked = @ + 1, !.ops = Append(@, "fn")]
       IN  \/ Return(f, [value |-> "success"])
           \/ \E e \in FnErrors : Throw(f, e)
    /\ UNCHANGED <<faults, creates, blind, log, runVars, loopVars, ledgerVars>>

InitRetry ==
    /\ pc = "fn"
    /\ contributors = <<>>
    /\ failureMode = "fail"
    /\ maxAttempts \in 1..MaxRetryAttempts
    /\ backoff = ActionBackoff
    /\ summary = NewSummary(<<>>)
    /\ projectAtomResult = <<>>
    /\ idx = 0
    /\ atomResult = <<>>
    /\ ens = [BlankFrame("generic", "", 0, 0) EXCEPT !.absent = FALSE]
    /\ ret = <<>>
    /\ thrown = <<>>
    /\ returned = <<>>
    /\ atoms = {}
    /\ triples = {}
    /\ balance = 0
    /\ txCount = 0
    /\ faults = 0
    /\ reserved = 0
    /\ calls = <<>>
    /\ recent = [k \in Keys |-> <<>>]
    /\ creates = [k \in Keys |-> 0]
    /\ blind = [k \in Keys |-> 0]
    /\ log = <<>>
    /\ run = NoRun
    /\ fetch = NoFetch

NextRetry ==
    \/ GenericFn
    \/ RetryCatch
    \/ RetrySleep

SpecRetry == InitRetry /\ [][NextRetry]_vars

(* --------------------- the delays of withRetry ------------------------ *)

\* The delayMs / exponentialBackoff / maxDelayMs a caller may pass.
BackoffOptions ==
    [delayMs : {10, 1000},
     exponentialBackoff : {<<>>, <<TRUE>>, <<FALSE>>},
     maxDelayMs : {<<>>, <<50>>}]

\* return await fn(), for an fn that resolves or fails on the network.
FlakyFn ==
    /\ pc = "fn"
    /\ ens.kind = "generic"
    /\ LET f == [ens EXCEPT !.invoked = @ + 1, !.ops = Append(@, "fn")]
       IN  \/ Return(f, [value |-> "success"])
           \/ Throw(f, NetworkError(<<"Error">>))
    /\ UNCHANGED <<faults, creates, blind, log, runVars, loopVars, ledgerVars>>

InitBackoff ==
    /\ pc = "fn"
    /\ contributors = <<>>
    /\ failureMode = "fail"
    /\ maxAttempts \in 1..MaxBackoffAttempts
    /\ backoff \in BackoffOptions
    /\ summary = NewSummary(<<>>)
    /\ projectAtomResult = <<>>
    /\ idx = 0
    /\ atomResult = <<>>
    /\ ens = [BlankFrame("generic", "", 0, 0) EXCEPT !.absent = FALSE]
    /\ ret = <<>>
    /\ thrown = <<>>
    /\ returned = <<>>
    /\ atoms = {}
    /\ triples = {}
    /\ balance = 0
    /\ txCount = 0
    /\ faults = 0
    /\ reserved = 0
    /\ calls = <<>>
    /\ recent = [k \in Keys |-> <<>>]
    /\ creates = [k \in Keys |-> 0]
    /\ blind = [k \in Keys |-> 0]
    /\ log = <<>>
    /\ run = NoRun
    /\ fetch = NoFetch

NextBackoff ==
    \/ FlakyFn
    \/ RetryCatch
    \/ RetrySleep

SpecBackoff == InitBackoff /\ [][NextBackoff]_vars

(* ------- processAttestations over arbitrary ensure operations --------- *)

\* What an ensure operation may resolve to when nothing is assumed about it
\* but its result type: an existing resource, or one it has just created.
StubOutcomes(f) ==
    { [id |-> KeyOf(f), txHash |-> ZeroHex, cost |-> 0, existed |-> TRUE],
      [id |-> KeyOf(f), txHash |-> TxHashOf(1), cost |-> MinDeposit,
       existed |-> FALSE] }

\* What an ensure operation may reject with: a retryable and a
\* non-retryable ActionError, an Error that is no ActionError, and a value
\* that is no Error.
StepErrors ==
    { NetworkError(<<"Network timeout">>),
      TransactionFailedError(<<"Transaction reverted">>),
      PlainError(<<"Unexpected error">>),
      NonErrorValue(<<"string error">>) }

\* await ensureProjectAtom(...) / ensureContributorAtom(...) /
\* ensureAttestationTriple(...), the operation being any function of that
\* type: it resolves to an outcome or rejects with any value.
StubEnsure ==
    /\ pc = "lookup"
    /\ LET f == [ens EXCEPT !.invoked = @ + 1]
       IN  \/ \E outcome \in StubOutcomes(f) :
                 /\ pc' = "ensured"
                 /\ ret' = <<outcome>>
                 /\ thrown' = <<>>
                 /\ ens' = f
                 /\ calls' = Append(calls, CallRecord(f, <<outcome>>, <<>>))
           \/ \E e \in StepErrors :
                 /\ pc' = "ensureRaised"
                 /\ ret' = <<>>
                 /\ thrown' = <<e>>
                 /\ ens' = [f EXCEPT !.errs = Append(@, e)]
                 /\ calls' = Append(calls, CallRecord(f, <<>>, <<e>>))
    /\ UNCHANGED <<recent, faults, creates, blind, log, runVars, loopVars, ledgerVars>>

InitSteps ==
    /\ pc = "idle"
    /\ contributors = <<>>
    /\ failureMode \in {"fail", "warn"}
    /\ maxAttempts = 1
    /\ backoff = ActionBackoff
    /\ summary = NewSummary(<<>>)
    /\ projectAtomResult = <<>>
    /\ idx = 0
    /\ atomResult = <<>>
    /\ ens = NoFrame
    /\ ret = <<>>
    /\ thrown = <<>>
    /\ returned = <<>>
    /\ atoms = {}
    /\ triples = {}
    /\ balance = 0
    /\ txCount = 0
    /\ faults = 0
    /\ reserved = 0
    /\ calls = <<>>
    /\ recent = [k \in Keys |-> <<>>]
    /\ creates = [k \in Keys |-> 0]
    /\ blind = [k \in Keys |-> 0]
    /\ log = <<>>
    /\ run = NoRun
    /\ fetch = NoFetch

NextSteps ==
    \/ \E cs \in ContributorLists : StartRun(cs)
    \/ StubEnsure
    \/ ProjectEnsured
    \/ ProjectFailed
    \/ ContributorStart
    \/ AtomEnsured
    \/ TripleEnsured
    \/ ContributorFailed
    \/ ReturnSummary

SpecSteps == InitSteps /\ [][NextSteps]_vars

(* ------------------------------- run() -------------------------------- *)

\* Variant of Merged that only asks for a pull request in the payload.
MergedOrOpen(pull) == pull # <<>>

\* github.context.payload.pull_request?.merged
Merged(pull) == pull # <<>> /\ pull[1].merged

\* The contexts run() can be started in, and whether the inputs it will read
\* are acceptable to validateAndParseInputs.
RunContexts ==
    { [NoRun EXCEPT !.eventName = e, !.pull = p, !.inputsValid = v] :
        e \in {"pull_request", "push"},
        p \in {<<>>, <<[merged |-> TRUE]>>, <<[merged |-> FALSE]>>},
        v \in BOOLEAN }

\* run() up to its first return or its first call: the event check and the
\* merged check.
RunCheckTrigger ==
    /\ pc = "run"
    /\ IF run.eventName # "pull_request"
       THEN /\ thrown' = <<InvalidInputError(
                    <<"This action must be triggered by a pull_request event">>)>>
            /\ pc' = "runCatch"
            /\ UNCHANGED run
       ELSE IF ~Merged(run.pull)
       THEN /\ run' = [run EXCEPT !.log = Append(@, "info:not merged")]
            /\ pc' = "done"
            /\ UNCHANGED thrown
       ELSE /\ pc' = "validate"
            /\ UNCHANGED <<run, thrown>>
    /\ UNCHANGED <<contributors, failureMode, maxAttempts, backoff, reserved,
                   fetch, ens, ret, histVars, faults, loopVars, ledgerVars>>

\* Step 1: const config = validateAndParseInputs()
RunValidate ==
    /\ pc = "validate"
    /\ IF run.inputsValid
       THEN /\ run' = [run EXCEPT !.config =
                    <<[failureMode |-> failureMode,
                       retryAttempts |-> maxAttempts,
                       retryDelay |-> backoff.delayMs]>>]
            /\ pc' = "client"
            /\ UNCHANGED thrown
       ELSE /\ thrown' = <<InvalidInputError(<<"Invalid input">>)>>
            /\ pc' = "runCatch"
            /\ UNCHANGED run
    /\ UNCHANGED <<contributors, failureMode, maxAttempts, backoff, reserved,
                   fetch, ens, ret, histVars, faults, loopVars, ledgerVars>>

\* Step 2: IntuitionClient.create(...) up to its withRetry call.
RunCreateClient ==
    /\ pc = "client"
    /\ run' = [run EXCEPT !.client = "creating"]
    /\ ens' = [BlankFrame("client", "", 0, 0) EXCEPT !.absent = FALSE]
    /\ pc' = "fn"
    /\ UNCHANGED <<contributors, failureMode, maxAttempts, backoff, reserved,
                   fetch, ret, thrown, histVars, faults, loopVars, ledgerVars>>

\* The function IntuitionClient.create hands to withRetry:
\* const balance = await client.checkBalance().
ClientBalance ==
    /\ pc = "fn"
    /\ ens.kind = "client"
    /\ LET f == [ens EXCEPT !.invoked = @ + 1, !.ops = Append(@, "balance")]
       IN  \/ /\ Return(f, [value |-> balance])
              /\ UNCHANGED faults
           \/ /\ faults < MaxFaults
              /\ faults' = faults + 1
              /\ Throw(f, NetworkError(<<"Failed to check balance">>))
    /\ UNCHANGED <<creates, blind, log, runVars, loopVars, ledgerVars>>

\* IntuitionClient.create returned the client.
RunClientReady ==
    /\ pc = "ensured"
    /\ ens.kind = "client"
    /\ run' = [run EXCEPT !.client = "ready"]
    /\ ens' = NoFrame
    /\ ret' = <<>>
    /\ pc' = "repository"
    /\ UNCHANGED <<contributors, failureMode, maxAttempts, backoff, reserved,
                   fetch, thrown, histVars, faults, loopVars, ledgerVars>>

\* Step 3: const repository = await fetchRepositoryData(config.githubToken)
RunFetchRepository ==
    /\ pc = "repository"
    /\ \/ /\ run' = [run EXCEPT !.repository = TRUE]
          /\ pc' = "contributors"
          /\ UNCHANGED thrown
       \/ /\ thrown' = <<GitHubAPIError(
                    <<"Failed to fetch repository data", "Not Found">>, 404)>>
          /\ pc' = "runCatch"
          /\ UNCHANGED run
    /\ UNCHANGED <<contributors, failureMode, maxAttempts, backoff, reserved,
                   fetch, ens, ret, histVars, faults, loopVars, ledgerVars>>

\* Step 4: const contributors = await fetchContributors(config.githubToken)
\* and the return when there are none.
RunFetchContributors ==
    /\ pc = "contributors"
    /\ \/ \E cs \in ContributorLists :
             /\ reserved + 1 + (2 * Len(cs)) <= MaxCalls
             /\ contributors' = cs
             /\ IF cs = <<>>
                THEN /\ run' = [run EXCEPT
                                  !.log = Append(@, "warning:no contributors")]
                     /\ pc' = "done"
                ELSE /\ pc' = "idle"
                     /\ UNCHANGED run
             /\ UNCHANGED thrown
       \/ /\ thrown' = <<GitHubAPIError(
                    <<"Failed to fetch contributors", "Server Error">>, 500)>>
          /\ pc' = "runCatch"
          /\ UNCHANGED <<run, contributors>>
    /\ UNCHANGED <<failureMode, maxAttempts, backoff, reserved, fetch, ens, ret,
                   histVars, faults, loopVars, ledgerVars>>

\* Step 5: await processAttestations(intuitionClient, repository,
\* contributors, config.failureMode, retryOptions)
RunProcess ==
    /\ pc = "idle"
    /\ run.client = "ready"
    /\ StartRun(contributors)

\* The name / value pairs of step 6, each value before its toString() or
\* JSON.stringify.
OutputsOf(s) ==
    << <<"project-atom-id", s.projectAtomId>>,
       <<"contributor-count", s.contributorCount>>,
       <<"attestations-created", s.attestationsCreated>>,
       <<"attestations-updated", s.attestationsUpdated>>,
       <<"transaction-hashes", s.transactionHashes>>,
       <<"total-cost", s.totalCost>> >>

\* Step 6 and 7: the core.setOutput calls and the summary log.
RunSetOutputs ==
    /\ pc = "returned"
    /\ run.client = "ready"
    /\ run' = [run EXCEPT !.outputs = OutputsOf(returned[1])]
    /\ pc' = "finalBalance"
    /\ UNCHANGED <<contributors, failureMode, maxAttempts, backoff, reserved,
                   fetch, ens, ret, thrown, histVars, faults, loopVars,
                   ledgerVars>>

\* const finalBalance = await intuitionClient.checkBalance(), and the end
\* of the try block.
RunFinalBalance ==
    /\ pc = "finalBalance"
    /\ \/ /\ run' = [run EXCEPT !.log = Append(@, "info:completed")]
          /\ pc' = "done"
          /\ UNCHANGED <<thrown, faults>>
       \/ /\ faults < MaxFaults
          /\ faults' = faults + 1
          /\ thrown' = <<NetworkError(<<"Failed to check balance">>)>>
          /\ pc' = "runCatch"
          /\ UNCHANGED run
    /\ UNCHANGED <<contributors, failureMode, maxAttempts, backoff, reserved,
                   fetch, ens, ret, histVars, loopVars, ledgerVars>>

\* The catch block of run(): core.setFailed(`Action failed: ${message}`).
RunCatch ==
    /\ \/ pc = "runCatch"
       \/ pc = "raised" /\ run.client = "ready"
       \/ pc = "ensureRaised" /\ ens.kind = "client"
    /\ run' = [run EXCEPT
                  !.failed = <<<<"Action failed">> \o ErrorMessage(thrown[1])>>]
    /\ ens' = NoFrame
    /\ pc' = "done"
    /\ UNCHANGED <<contributors, failureMode, maxAttempts, backoff, reserved,
                   fetch, ret, thrown, histVars, faults, loopVars, ledgerVars>>

InitRun ==
    /\ pc = "run"
    /\ contributors = <<>>
    /\ failureMode \in {"fail", "warn"}
    /\ maxAttempts \in 1..MaxAttempts
    /\ backoff = ActionBackoff
    /\ summary = NewSummary(<<>>)
    /\ projectAtomResult = <<>>
    /\ idx = 0
    /\ atomResult = <<>>
    /\ ens = NoFrame
    /\ ret = <<>>
    /\ thrown = <<>>
    /\ returned = <<>>
    /\ atoms = {}
    /\ triples = {}
    /\ balance \in InitialBalances
    /\ txCount = 0
    /\ faults = 0
    /\ reserved = 0
    /\ calls = <<>>
    /\ recent = [k \in Keys |-> <<>>]
    /\ creates = [k \in Keys |-> 0]
    /\ blind = [k \in Keys |-> 0]
    /\ log = <<>>
    /\ run \in RunContexts
    /\ fetch = NoFetch

NextRun ==
    \/ RunCheckTrigger
    \/ RunValidate
    \/ RunCreateClient
    \/ ClientBalance
    \/ RunClientReady
    \/ RunFetchRepository
    \/ RunFetchContributors
    \/ RunProcess
    \/ LookupAtom
    \/ LookupTriple
    \/ CheckFunds
    \/ Submit
    \/ Confirm
    \/ RetryCatch
    \/ RetrySleep
    \/ ProjectEnsured
    \/ ProjectFailed
    \/ ContributorStart
    \/ AtomEnsured
    \/ TripleEnsured
    \/ ContributorFailed
    \/ ReturnSummary
    \/ RunSetOutputs
    \/ RunFinalBalance
    \/ RunCatch

SpecRun == InitRun /\ [][NextRun]_vars

(* -------------------------- fetchContributors ------------------------- *)

\* A string is the sequence of its characters.
UpperCase == <<"A", "B", "X">>

LowerCase == <<"a", "b", "x">>

\* String.prototype.toLowerCase, character by character.
toLowerCase(str) ==
    [n \in 1..Len(str) |->
        IF \E u \in 1..Len(UpperCase) : UpperCase[u] = str[n]
        THEN LowerCase[CHOOSE u \in 1..Len(UpperCase) : UpperCase[u] = str[n]]
        ELSE str[n]]

\* str.split('@')[0]
BeforeAt(str) ==
    IF \E n \in 1..Len(str) : str[n] = "@"
    THEN SubSeq(str, 1,
                (CHOOSE n \in 1..Len(str) :
                    /\ str[n] = "@"
                    /\ \A m \in 1..(n - 1) : str[m] # "@") - 1)
    ELSE str

\* What the author part of a commit may be: commit.commit.author?.email
\* (null, empty, or an address in either case), commit.commit.author?.name
\* and commit.author?.login; <<>> is an absent value.
CommitAuthors ==
    { [email |-> <<>>, name |-> <<"Test User">>, login |-> <<>>],
      [email |-> << <<>> >>, name |-> <<"Test User">>, login |-> <<"test">>],
      [email |-> << <<"a", "@", "x">> >>, name |-> <<"Ann">>, login |-> <<"ann">>],
      [email |-> << <<"A", "@", "x">> >>, name |-> <<"Ann">>, login |-> <<>>],
      [email |-> << <<"a", "@", "X">> >>, name |-> <<>>, login |-> <<>>],
      [email |-> << <<"b", "@", "x">> >>, name |-> <<"Bob">>, login |-> <<>>],
      [email |-> << <<"B", "@", "x">> >>, name |-> <<"Bob">>, login |-> <<"bob">>] }

\* The commit lists octokit.paginate may resolve to.
CommitLists ==
    UNION { [1..n -> CommitAuthors] : n \in 0..MaxCommits }

\* if (!authorEmail): the email is null, undefined or empty.
NoEmail(commit) == commit.email = <<>> \/ commit.email[1] = <<>>

\* Variant of AuthorKey that keeps the case of the email.
AuthorKeyExact(authorEmail) == authorEmail

\* const key = authorEmail.toLowerCase()
AuthorKey(authorEmail) == toLowerCase(authorEmail)

\* The position of key in the Map, 0 when the Map has no such key.
MapIndex(map, key) ==
    IF \E n \in 1..Len(map) : map[n].key = key
    THEN CHOOSE n \in 1..Len(map) : map[n].key = key
    ELSE 0

\* The body of the first loop for a commit with an email.
SetAuthor(map, commit) ==
    LET key == AuthorKey(commit.email[1])
        at == MapIndex(map, key)
        authorName == IF commit.name = <<>> THEN "Unknown" ELSE commit.name[1]
    IN  IF at = 0
        THEN Append(map, [key |-> key,
                          author |-> [name |-> authorName,
                                      email |-> commit.email[1],
                                      username |-> commit.login]])
        ELSE IF commit.login # <<>> /\ map[at].author.username = <<>>
        THEN [map EXCEPT ![at].author.username = commit.login]
        ELSE map

\* commits.filter((c) => c.commit.author?.email?.toLowerCase() === email).length
CommitCountOf(commits, email) ==
    Cardinality({ n \in 1..Len(commits) :
                    /\ commits[n].email # <<>>
                    /\ toLowerCase(commits[n].email[1]) = email })

\* getContributorData when the profile of author.username was fetched: the
\* user has no display name of their own.
ProfileData(author, commitCount) ==
    [username |-> author.username, name |-> author.name,
     email |-> author.email,
     profileUrl |-> <<"https://github.com/", author.username[1]>>,
     commitCount |-> commitCount]

\* getContributorData falling back to the commit metadata.
FallbackData(author, commitCount) ==
    [username |-> author.username, name |-> author.name,
     email |-> author.email,
     profileUrl |-> <<"https://github.com/",
                      IF author.username # <<>> THEN author.username[1]
                      ELSE BeforeAt(author.email)>>,
     commitCount |-> commitCount]

\* fetchContributors up to its first loop: the pull_request check and
\* octokit.paginate.
FetchStart ==
    /\ pc = "fetch"
    /\ IF run.pull = <<>>
       THEN /\ thrown' = <<GitHubAPIError(
                    <<"This action must be run on a pull_request event">>, 0)>>
            /\ pc' = "fetchRaised"
            /\ UNCHANGED fetch
       ELSE \/ /\ fetch' = [fetch EXCEPT !.i = 1]
               /\ pc' = "authors"
               /\ UNCHANGED thrown
            \/ /\ thrown' = <<GitHubAPIError(
                       <<"Failed to fetch contributors", "Server Error">>, 500)>>
               /\ pc' = "fetchRaised"
               /\ UNCHANGED fetch
    /\ UNCHANGED <<contributors, failureMode, maxAttempts, backoff, reserved,
                   run, ens, ret, histVars, faults, loopVars, ledgerVars>>

\* for (const commit of commits): one commit, or the end of the loop.
FetchAuthor ==
    /\ pc = "authors"
    /\ IF fetch.i > Len(fetch.commits)
       THEN /\ fetch' = [fetch EXCEPT !.j = 1]
            /\ pc' = "profiles"
       ELSE /\ fetch' =
                 IF NoEmail(fetch.commits[fetch.i])
                 THEN [fetch EXCEPT !.i = @ + 1, !.skipped = @ + 1]
                 ELSE [fetch EXCEPT
                          !.i = @ + 1,
                          !.authorsMap = SetAuthor(@, fetch.commits[fetch.i])]
            /\ UNCHANGED pc
    /\ UNCHANGED <<contributors, failureMode, maxAttempts, backoff, reserved,
                   run, ens, ret, thrown, histVars, faults, loopVars,
                   ledgerVars>>

\* for (const [email, author] of authorsMap): one author, or the return.
FetchProfile ==
    /\ pc = "profiles"
    /\ IF fetch.j > Len(fetch.authorsMap)
       THEN /\ pc' = "fetched"
            /\ UNCHANGED fetch
       ELSE LET entry == fetch.authorsMap[fetch.j]
                n == CommitCountOf(fetch.commits, entry.key)
            IN  /\ \/ /\ entry.author.username # <<>>
                      /\ fetch' = [fetch EXCEPT
                            !.j = @ + 1,
                            !.contributors =
                                Append(@, ProfileData(entry.author, n))]
                   \/ fetch' = [fetch EXCEPT
                            !.j = @ + 1,
                            !.contributors =
                                Append(@, FallbackData(entry.author, n))]
                /\ UNCHANGED pc
    /\ UNCHANGED <<contributors, failureMode, maxAttempts, backoff, reserved,
                   run, ens, ret, thrown, histVars, faults, loopVars,
                   ledgerVars>>

InitFetch ==
    /\ pc = "fetch"
    /\ contributors = <<>>
    /\ failureMode = "fail"
    /\ maxAttempts = 1
    /\ backoff = ActionBackoff
    /\ summary = NewSummary(<<>>)
    /\ projectAtomResult = <<>>
    /\ idx = 0
    /\ atomResult = <<>>
    /\ ens = NoFrame
    /\ ret = <<>>
    /\ thrown = <<>>
    /\ returned = <<>>
    /\ atoms = {}
    /\ triples = {}
    /\ balance = 0
    /\ txCount = 0
    /\ faults = 0
    /\ reserved = 0
    /\ calls = <<>>
    /\ recent = [k \in Keys |-> <<>>]
    /\ creates = [k \in Keys |-> 0]
    /\ blind = [k \in Keys |-> 0]
    /\ log = <<>>
    /\ \E p \in {<<>>, <<[merged |-> TRUE]>>} :
          run = [NoRun EXCEPT !.eventName = "pull_request", !.pull = p]
    /\ \E cs \in CommitLists : fetch = [NoFetch EXCEPT !.commits = cs]

NextFetch ==
    \/ FetchStart
    \/ FetchAuthor
    \/ FetchProfile

SpecFetch == InitFetch /\ [][NextFetch]_vars

(* ------------------------------ claims -------------------------------- *)

\* withRetry stops on e at once: e is a classified error that is not retryable.
Fatal(e) == IsActionError(e) /\ ~e.isRetryable

GenericCall == ens.kind = "generic"

\* C7: withRetry with maxAttempts = N >= 1 never invokes fn more than N
\* times; every failure before the last one was retryable; when it raises,
\* either the last failure was non-retryable (and, if that was the first
\* failure, fn was invoked exactly once) or fn was invoked exactly N times;
\* and when it returns, the returning invocation is the last one, all the
\* earlier ones having failed.
C7_RetryCounts ==
    GenericCall =>
        /\ ens.invoked <= maxAttempts
        /\ \A i \in 1..(Len(ens.errs) - 1) : ~Fatal(ens.errs[i])
        /\ pc = "ensureRaised" =>
              /\ ens.invoked = Len(ens.errs)
              /\ Fatal(ens.errs[Len(ens.errs)]) \/ ens.invoked = maxAttempts
              /\ Fatal(ens.errs[1]) => ens.invoked = 1
        /\ pc = "ensured" => ens.invoked = Len(ens.errs) + 1

\* fn failed retryably every time and withRetry gave up after 3 invocations.
C7_Witness ==
    /\ GenericCall
    /\ pc = "ensureRaised"
    /\ maxAttempts = 3
    /\ ens.invoked = 3
    /\ \A i \in 1..3 : ens.errs[i].kind = "NetworkError"

\* C8 as stated: whenever withRetry gives up, the error it raises is the
\* last error fn raised, unchanged.
C8_Original ==
    (GenericCall /\ pc = "ensureRaised") =>
        thrown[1] = ens.errs[Len(ens.errs)]

\* C8 amended: whenever withRetry gives up, it raises the last error fn
\* raised, unchanged, if that is an Error; if fn threw a value that is no
\* Error and the attempts are exhausted, withRetry raises a new plain Error
\* whose message is the text of that value.
C8_LastErrorSurfaced ==
    (GenericCall /\ pc = "ensureRaised") =>
        LET last == ens.errs[Len(ens.errs)]
        IN  IF last.kind # "NonError" THEN thrown[1] = last
            ELSE /\ thrown[1] = [kind |-> "Error", isRetryable |-> FALSE,
                                 message |-> last.message]
                 /\ ens.invoked = maxAttempts

\* withRetry gave up on a thrown string after three attempts.
C8_Witness ==
    /\ GenericCall
    /\ pc = "ensureRaised"
    /\ ens.invoked = 3
    /\ ens.errs[3].kind = "NonError"
    /\ thrown[1].kind = "Error"

(* -------- claims about the ensurers and the orchestrator (Spec) -------- *)

\* The attempt in progress has had its lookup fail: the body logged the
\* warning and went on to the funds check.
BlindAttempt(f) == Len(f.ops) >= 2 /\ f.ops[Len(f.ops) - 1] = "warning"

\* C1 as stated: over any number of runs and retries, at most one create
\* reaches the ledger for any one resource, lookup failures included.
C1_Original == \A k \in Keys : creates[k] <= 1

\* C1 amended: a create is submitted for a resource the ledger already
\* holds only in an attempt whose lookup failed; so the creates that reach
\* the ledger for one resource number at most one more than the lookups on
\* it that failed, and at most one when every lookup succeeds.
C1_CreateOnlyWhenAbsentOrBlind ==
    /\ \A k \in Keys : creates[k] <= 1 + blind[k]
    /\ (pc = "submit" /\ ~ens.tripleExists /\ OnLedger(ens)) => BlindAttempt(ens)

\* A second create has reached the ledger for a resource after a lookup
\* on it failed.
C1_Witness ==
    \E k \in Keys :
        /\ creates[k] = 2
        /\ blind[k] >= 1
        /\ pc = "caught"
        /\ HasOp(ens, {"create:dup"})

\* Two consecutive calls on resource k, the first of which met a ledger
\* without k and returned, and whose lookups all succeeded.
FreshThenAgain(k) ==
    /\ Len(recent[k]) = 2
    /\ recent[k][1].absent
    /\ recent[k][1].lookupOk
    /\ recent[k][1].res # <<>>
    /\ recent[k][2].lookupOk

\* C2: when a subject is ensured twice for the same url, starting from a
\* ledger without it and with succeeding lookups, the first call reports
\* existed = false, and the second returns, reports existed = true with the
\* same id, cost 0 and the '0x0' hash, and submits nothing.
C2_SubjectIdempotent ==
    \A k \in AtomIds :
        FreshThenAgain(k) =>
            LET a == recent[k][1]
                b == recent[k][2]
            IN  /\ ~a.res[1].existed
                /\ a.created
                /\ b.res # <<>>
                /\ b.res[1].existed
                /\ b.res[1].id = a.res[1].id
                /\ b.res[1].cost = 0
                /\ b.res[1].txHash = ZeroHex
                /\ ~b.created
                /\ ~b.deposited

\* One run has ensured the subject of one url twice, for two contributors
\* of different names.
C2_Witness ==
    \E k \in AtomIds :
        /\ FreshThenAgain(k)
        /\ recent[k][1].kind = "contributor"
        /\ recent[k][2].kind = "contributor"
        /\ recent[k][1].name # recent[k][2].name
        /\ recent[k][2].res # <<>>
        /\ Len(calls) >= 4

TripleKeys == Keys \ (AtomIds \cup {ZeroHex})

\* C3: when a relationship is ensured twice for the same pair, starting
\* from a ledger without it, with succeeding lookups and both calls
\* returning, the first reports existed = false and the second existed =
\* true with the same id; both report a cost above zero and the hash of a
\* transaction of their own; the first submitted a create and no deposit,
\* the second a deposit and no create.
C3_RelationshipRestaked ==
    \A k \in TripleKeys :
        (FreshThenAgain(k) /\ recent[k][2].res # <<>>) =>
            LET a == recent[k][1]
                b == recent[k][2]
            IN  /\ ~a.res[1].existed
                /\ b.res[1].existed
                /\ b.res[1].id = a.res[1].id
                /\ a.res[1].cost > 0
                /\ b.res[1].cost > 0
                /\ a.res[1].txHash # ZeroHex
                /\ b.res[1].txHash # ZeroHex
                /\ a.res[1].txHash # b.res[1].txHash
                /\ a.created /\ ~a.deposited
                /\ b.deposited /\ ~b.created

\* A relationship has been created by one call and staked on by the next.
C3_Witness ==
    \E k \in TripleKeys :
        /\ FreshThenAgain(k)
        /\ recent[k][2].res # <<>>
        /\ recent[k][2].deposited

\* The call at position j of this run was made for a contributor and raised.
ContributorCallRaised(j) == calls[j].idx >= 1 /\ calls[j].err # <<>>

\* C4: with failureMode 'fail', once an ensure call made for a contributor
\* has raised, it is the last ensure call of the run: the run raises that
\* call's error, hands no summary to the caller, records no outcome for
\* that contributor and issues no call for a later one.
C4_AbortRaisesAtOnce ==
    failureMode = "fail" =>
        \A j \in 1..Len(calls) :
            ContributorCallRaised(j) =>
                /\ j = Len(calls)
                /\ pc \in {"ensureRaised", "raised"}
                /\ returned = <<>>
                /\ pc = "ensureRaised" => KeyOf(ens) = calls[j].key
                /\ pc = "raised" => ens = NoFrame /\ thrown = calls[j].err
                /\ idx = calls[j].idx
                /\ Len(summary.results) = idx - 1
                /\ \A i \in 1..Len(summary.results) : summary.results[i].success

\* The run has raised on the first of two contributors, at the relationship.
C4_Witness ==
    /\ failureMode = "fail"
    /\ pc = "raised"
    /\ Len(contributors) = 2
    /\ idx = 1
    /\ calls[Len(calls)].kind = "triple"
    /\ calls[Len(calls)].err # <<>>

\* C5: with failureMode 'warn', a run raises only if the project's ensure
\* call raised; every contributor whose ensure call raised is recorded with
\* success = false and that error's message, every failed result stems
\* from such a call, and the loop goes on: a returned summary has one
\* result per contributor, each of which had an ensure call issued.
C5_ContinueCaptures ==
    failureMode = "warn" =>
        /\ pc = "raised" => Len(calls) = 1 /\ calls[1].kind = "project"
        /\ projectAtomResult # <<>> => pc # "raised"
        /\ \A j \in 1..Len(calls) :
              (ContributorCallRaised(j) /\ ~(j = Len(calls) /\ pc = "ensureRaised")) =>
                  /\ calls[j].idx <= Len(summary.results)
                  /\ ~summary.results[calls[j].idx].success
                  /\ summary.results[calls[j].idx].error =
                         <<ErrorMessage(calls[j].err[1])>>
                  /\ summary.results[calls[j].idx].contributor =
                         contributors[calls[j].idx]
        /\ \A i \in 1..Len(summary.results) :
              ~summary.results[i].success =>
                  \E j \in 1..Len(calls) :
                      calls[j].idx = i /\ calls[j].err # <<>>
        /\ pc = "returned" =>
              /\ returned = <<summary>>
              /\ Len(summary.results) = Len(contributors)
              /\ \A i \in 1..Len(contributors) :
                    \E j \in 1..Len(calls) : calls[j].idx = i

\* A summary was returned in which the first contributor failed and the
\* second one succeeded.
C5_Witness ==
    /\ failureMode = "warn"
    /\ pc = "returned"
    /\ Len(returned[1].results) = 2
    /\ ~returned[1].results[1].success
    /\ returned[1].results[1].error # <<>>
    /\ returned[1].results[2].success

\* C6: in either failure mode, when the project's ensure call raises, the
\* run raises that error, returns no summary, and no ensure call is issued
\* for any contributor.
C6_ProjectFailureFatal ==
    (calls # <<>> /\ calls[1].err # <<>>) =>
        /\ calls[1].kind = "project"
        /\ Len(calls) = 1
        /\ pc \in {"ensureRaised", "raised"}
        /\ pc = "ensureRaised" => ens.kind = "project"
        /\ pc = "raised" => ens = NoFrame /\ thrown = calls[1].err
        /\ returned = <<>>
        /\ summary.results = <<>>
        /\ projectAtomResult = <<>>

\* A run over two contributors has raised on the project with failureMode
\* 'warn'.
C6_Witness ==
    /\ failureMode = "warn"
    /\ pc = "raised"
    /\ Len(contributors) = 2
    /\ Len(calls) = 1
    /\ calls[1].err # <<>>

RECURSIVE SuccessCosts(_)
\* The costs of the subject and relationship outcomes of the successful
\* results in `results`, added up.
SuccessCosts(results) ==
    IF results = <<>> THEN 0
    ELSE LET r == results[Len(results)]
         IN  SuccessCosts(SubSeq(results, 1, Len(results) - 1))
             + (IF r.success THEN r.atomResult[1].cost + r.tripleResult[1].cost
                ELSE 0)

\* Both contributors of a returned summary succeeded with a new subject and
\* a new relationship, the project having existed.
TwoNewContributors(s) ==
    /\ projectAtomResult[1].existed
    /\ Len(s.results) = 2
    /\ \A i \in 1..2 :
          /\ s.results[i].success
          /\ ~s.results[i].atomResult[1].existed
          /\ ~s.results[i].tripleResult[1].existed

\* C9: in a returned summary, totalCost is the cost of the project outcome
\* plus, over the results with success = true, the subject's cost plus the
\* relationship's cost; with an existing project and two contributors that
\* each get a new subject and a new relationship it is twice the subject
\* cost plus twice the relationship cost, with attestationsCreated = 2 and
\* attestationsUpdated = 0.
C9_TotalCost ==
    returned # <<>> =>
        LET s == returned[1]
        IN  /\ s.totalCost = projectAtomResult[1].cost + SuccessCosts(s.results)
            /\ TwoNewContributors(s) =>
                  /\ s.totalCost =
                         (2 * s.results[1].atomResult[1].cost)
                         + (2 * s.results[1].tripleResult[1].cost)
                  /\ s.totalCost = 4 * MinDeposit
                  /\ s.attestationsCreated = 2
                  /\ s.attestationsUpdated = 0

\* Such a summary has been returned.
C9_Witness ==
    /\ pc = "returned"
    /\ returned # <<>>
    /\ TwoNewContributors(returned[1])

RECURSIVE CreatedCosts(_)
\* The costs of the outcomes in the calls `cs` that report existed = false,
\* added up.
CreatedCosts(cs) ==
    IF cs = <<>> THEN 0
    ELSE LET c == cs[Len(cs)]
         IN  CreatedCosts(SubSeq(cs, 1, Len(cs) - 1))
             + (IF c.res # <<>> /\ ~c.res[1].existed THEN c.res[1].cost ELSE 0)

\* C10 as stated: in a returned summary, totalCost is the sum of cost over
\* the outcomes the run produced with existed = false; outcomes with
\* existed = true contribute nothing.
C10_Original ==
    returned # <<>> => returned[1].totalCost = CreatedCosts(calls)

\* The outcome of call c is one the summary s keeps: the project's, or one
\* of a contributor whose result has success = true.
Kept(s, c) ==
    /\ c.res # <<>>
    /\ c.idx = 0 \/ s.results[c.idx].success

RECURSIVE KeptCosts(_, _)
\* Over the calls `cs`: the costs of the kept outcomes, those of existing
\* subjects left out.
KeptCosts(s, cs) ==
    IF cs = <<>> THEN 0
    ELSE LET c == cs[Len(cs)]
         IN  KeptCosts(s, SubSeq(cs, 1, Len(cs) - 1))
             + (IF Kept(s, c) /\ ~(c.res[1].existed /\ IsAtomKind(c.kind))
                THEN c.res[1].cost ELSE 0)

\* C10 amended: in a returned summary, totalCost is the sum of cost over
\* the outcomes the summary keeps (the project's and those of the
\* contributors that succeeded): created resources contribute their cost,
\* an existing subject contributes nothing, and an existing relationship
\* contributes the deposit that was added to it, which is above zero.  The
\* subject created for a contributor whose relationship failed is left out.
C10_TotalCostOfKept ==
    returned # <<>> =>
        /\ returned[1].totalCost = KeptCosts(returned[1], calls)
        /\ \A j \in 1..Len(calls) :
              (calls[j].res # <<>> /\ calls[j].res[1].existed) =>
                  calls[j].res[1].cost =
                      IF IsAtomKind(calls[j].kind) THEN 0 ELSE MinDeposit

\* A summary was returned whose total includes the deposit on a
\* relationship that existed.
C10_Witness ==
    /\ returned # <<>>
    /\ \E i \in 1..Len(returned[1].results) :
          /\ returned[1].results[i].success
          /\ returned[1].results[i].tripleResult[1].existed
    /\ returned[1].totalCost > CreatedCosts(calls)

Succeeded(r) == r.success

SucceededOnExisting(r) == r.success /\ r.tripleResult[1].existed

SucceededOnNew(r) == r.success /\ ~r.tripleResult[1].existed

\* The number of results in `results` with success = true.
CountSucceeded(results) ==
    Cardinality({ i \in 1..Len(results) : Succeeded(results[i]) })

\* The number of successful results whose relationship existed.
CountOnExisting(results) ==
    Cardinality({ i \in 1..Len(results) : SucceededOnExisting(results[i]) })

\* The number of successful results whose relationship was new.
CountOnNew(results) ==
    Cardinality({ i \in 1..Len(results) : SucceededOnNew(results[i]) })

\* C11: in a returned summary, attestationsCreated + attestationsUpdated
\* is the number of results with success = true.
C11_TallyCountsSuccesses ==
    returned # <<>> =>
        returned[1].attestationsCreated + returned[1].attestationsUpdated
            = CountSucceeded(returned[1].results)

\* A summary with one failed and one counted contributor was returned.
C11_Witness ==
    /\ returned # <<>>
    /\ Len(returned[1].results) = 2
    /\ CountSucceeded(returned[1].results) = 1
    /\ returned[1].attestationsCreated = 1
    /\ returned[1].attestationsUpdated = 0

\* C12: at every point of a run, attestationsUpdated is the number of
\* successful contributors whose relationship outcome has existed = true
\* and attestationsCreated the number of those whose relationship outcome
\* has existed = false, whatever the subject outcome's existed flag: each
\* successful contributor adds one to exactly one of the two.
C12_TallyByRelationship ==
    /\ summary.attestationsUpdated = CountOnExisting(summary.results)
    /\ summary.attestationsCreated = CountOnNew(summary.results)

\* A contributor whose subject existed and whose relationship was new has
\* been counted as created.
C12_Witness ==
    /\ \E i \in 1..Len(summary.results) :
          /\ SucceededOnNew(summary.results[i])
          /\ summary.results[i].atomResult[1].existed
    /\ summary.attestationsCreated >= 1

\* C13: in a returned summary, transactionHashes does not contain '0x0',
\* and projectAtomTxHash is not '0x0' (it is unset when the project
\* existed).
C13_NoSentinelHash ==
    returned # <<>> =>
        /\ \A i \in 1..Len(returned[1].transactionHashes) :
              returned[1].transactionHashes[i] # ZeroHex
        /\ returned[1].projectAtomTxHash # <<ZeroHex>>
        /\ projectAtomResult[1].existed => returned[1].projectAtomTxHash = <<>>

\* A summary was returned for a run in which the project, the subject and
\* the relationship all existed.
C13_Witness ==
    /\ returned # <<>>
    /\ projectAtomResult[1].existed
    /\ Len(returned[1].results) = 1
    /\ SucceededOnExisting(returned[1].results[1])
    /\ returned[1].results[1].atomResult[1].existed
    /\ returned[1].results[1].atomResult[1].txHash = ZeroHex

\* C14 as stated: every outcome an ensure call returns with existed = true
\* has cost 0 and the '0x0' hash.
C14_Original ==
    \A j \in 1..Len(calls) :
        (calls[j].res # <<>> /\ calls[j].res[1].existed) =>
            calls[j].res[1].cost = 0 /\ calls[j].res[1].txHash = ZeroHex

\* C14 amended: a subject outcome with existed = true has cost 0 and the
\* '0x0' hash, and the call submitted nothing; a relationship outcome with
\* existed = true reports the deposit that was added to it: its cost is
\* the minimum deposit, above zero, and its hash is that of the deposit
\* transaction, not '0x0'.
C14_ExistedOutcomes ==
    \A j \in 1..Len(calls) :
        (calls[j].res # <<>> /\ calls[j].res[1].existed) =>
            IF IsAtomKind(calls[j].kind)
            THEN /\ calls[j].res[1].cost = 0
                 /\ calls[j].res[1].txHash = ZeroHex
                 /\ ~calls[j].created /\ ~calls[j].deposited
            ELSE /\ calls[j].res[1].cost = MinDeposit
                 /\ calls[j].res[1].cost > 0
                 /\ calls[j].res[1].txHash # ZeroHex
                 /\ calls[j].res[1].txHash <= TxHashOf(txCount)
                 /\ calls[j].deposited

\* One run has returned a subject outcome and a relationship outcome with
\* existed = true.
C14_Witness ==
    \E i, j \in 1..Len(calls) :
        /\ calls[i].kind = "contributor"
        /\ calls[i].res # <<>> /\ calls[i].res[1].existed
        /\ calls[j].kind = "triple"
        /\ calls[j].res # <<>> /\ calls[j].res[1].existed

\* C15: a returned summary has one result per input contributor, in input
\* order: results[i] is about contributors[i] and, when successful, holds
\* the outcomes of the ensure calls made for contributors[i]; and
\* contributorCount is the length of the input list.
C15_ResultsFollowInput ==
    returned # <<>> =>
        LET s == returned[1]
        IN  /\ Len(s.results) = Len(contributors)
            /\ s.contributorCount = Len(contributors)
            /\ \A i \in 1..Len(s.results) :
                  /\ s.results[i].contributor = contributors[i]
                  /\ s.results[i].success =>
                        \E a, b \in 1..Len(calls) :
                            /\ a < b
                            /\ calls[a].idx = i /\ calls[a].kind = "contributor"
                            /\ calls[b].idx = i /\ calls[b].kind = "triple"
                            /\ s.results[i].atomResult = calls[a].res
                            /\ s.results[i].tripleResult = calls[b].res

\* A summary over alice and bob was returned, alice's result successful
\* and bob's failed.
C15_Witness ==
    /\ returned # <<>>
    /\ Len(contributors) = 2
    /\ contributors[1].name # contributors[2].name
    /\ returned[1].results[1].success
    /\ ~returned[1].results[2].success

RECURSIVE HashesOf(_)
\* The non-sentinel hashes of the successful results in `results`: for each
\* in turn the subject's, then the relationship's.
HashesOf(results) ==
    IF results = <<>> THEN <<>>
    ELSE LET r == results[Len(results)]
             own == IF ~r.success THEN <<>>
                    ELSE SelectSeq(<<r.atomResult[1].txHash, r.tripleResult[1].txHash>>,
                                   LAMBDA h : h # ZeroHex)
         IN  HashesOf(SubSeq(results, 1, Len(results) - 1)) \o own

\* C16: in a returned summary, transactionHashes is the project's hash (if
\* the project was created) followed, for each successful contributor in
\* input order, by its subject's hash (if created) and then its
\* relationship's hash; this is the order in which the ledger accepted the
\* transactions.
C16_HashesInOrder ==
    returned # <<>> =>
        LET s == returned[1]
            first == IF projectAtomResult[1].txHash # ZeroHex
                     THEN <<projectAtomResult[1].txHash>> ELSE <<>>
        IN  /\ s.transactionHashes = first \o HashesOf(s.results)
            /\ \A i, j \in 1..Len(s.transactionHashes) :
                  i < j => s.transactionHashes[i] < s.transactionHashes[j]

\* A summary was returned that lists the project's, a subject's and a
\* relationship's transaction.
C16_Witness ==
    /\ returned # <<>>
    /\ ~projectAtomResult[1].existed
    /\ Len(returned[1].transactionHashes) >= 3
    /\ returned[1].transactionHashes[1] = projectAtomResult[1].txHash

(* ------ claims about the errors processAttestations raises ------------ *)

\* The error the last ensure call of the run raised.
LastRaised == calls[Len(calls)].err[1]

\* The run has raised on a contributor's ensure call under failureMode 'fail'.
AbortedOnContributor ==
    /\ failureMode = "fail"
    /\ pc = "raised"
    /\ calls[Len(calls)].idx >= 1

\* C17 as stated: under failureMode 'fail', the error processAttestations
\* raises when a contributor fails is the error the failing ensure
\* operation raised, whatever its kind.
C17_Original == AbortedOnContributor => thrown[1] = LastRaised

\* C17 amended: under failureMode 'fail', when a contributor fails on an
\* ActionError of any kind, processAttestations raises that same error;
\* when the failing ensure operation raised anything else, it raises a new
\* non-retryable ActionError 'Failed to process attestations: <message>'.
C17_AbortSurfacesError ==
    AbortedOnContributor =>
        IF IsActionError(LastRaised) THEN thrown[1] = LastRaised
        ELSE thrown[1] = ActionError(<<"Failed to process attestations">>
                                        \o ErrorMessage(LastRaised), FALSE)

\* A run has aborted on a contributor whose ensure operation raised an
\* Error that is no ActionError.
C17_Witness ==
    /\ AbortedOnContributor
    /\ LastRaised.kind = "Error"
    /\ thrown[1].kind = "ActionError"

\* The message m ends with the fragments of message n.
EndsWith(m, n) ==
    /\ Len(m) >= Len(n)
    /\ SubSeq(m, Len(m) - Len(n) + 1, Len(m)) = n

\* C18: whatever processAttestations raises is an ActionError: an
\* ActionError raised by a step is raised as it is, anything else is
\* replaced by a non-retryable ActionError whose message contains the
\* original message.
C18_RaisesOnlyActionErrors ==
    pc = "raised" =>
        /\ IsActionError(thrown[1])
        /\ IsActionError(LastRaised) => thrown[1] = LastRaised
        /\ ~IsActionError(LastRaised) =>
              /\ thrown[1].kind = "ActionError"
              /\ ~thrown[1].isRetryable
              /\ EndsWith(thrown[1].message, ErrorMessage(LastRaised))
              /\ Len(thrown[1].message) > Len(ErrorMessage(LastRaised))

\* A run has raised after the project's ensure operation threw a value
\* that is no Error.
C18_Witness ==
    /\ pc = "raised"
    /\ Len(calls) = 1
    /\ LastRaised.kind = "NonError"
    /\ thrown[1].kind = "ActionError"

(* ---------------- claims about the error classes ---------------------- *)

\* The value the class of e gives isRetryable at construction, for the
\* classes that fix it.
FlagOfClass(e) ==
    CASE e.kind = "NetworkError" -> TRUE
      [] e.kind = "GitHubAPIError" -> e.statusCode \notin {403, 404}
      [] e.kind \in {"InvalidInputError", "InsufficientFundsError",
                     "TransactionFailedError"} -> FALSE
      [] OTHER -> e.isRetryable

\* C19: every classified error that withRetry has caught or raises carries
\* the isRetryable flag its class gave it at construction, through every
\* catch and rethrow: NetworkError true; GitHubAPIError true unless its
\* status code is 403 or 404, and true without a status code;
\* InvalidInputError, InsufficientFundsError and TransactionFailedError
\* false; and an ActionError constructed without the flag has it false.
C19_RetryableFlags ==
    /\ \A i \in 1..Len(ens.errs) : ens.errs[i].isRetryable = FlagOfClass(ens.errs[i])
    /\ (thrown # <<>> /\ IsActionError(thrown[1])) =>
          /\ thrown[1].isRetryable = FlagOfClass(thrown[1])
          /\ thrown[1] = ens.errs[Len(ens.errs)]
    /\ GitHubAPIError(<<"API error">>, 0).isRetryable
    /\ \A text \in {"Action error", "x"} : ~ActionErrorDefault(<<text>>).isRetryable

\* withRetry, allowed three attempts, has retried a GitHubAPIError without
\* status code and then raised a GitHubAPIError with status 403 at once.
C19_Witness ==
    /\ GenericCall
    /\ pc = "ensureRaised"
    /\ maxAttempts = 3
    /\ ens.invoked = 2
    /\ ens.errs[1].kind = "GitHubAPIError" /\ ens.errs[1].statusCode = 0
    /\ thrown[1].kind = "GitHubAPIError" /\ thrown[1].statusCode = 403

(* ------------------- claims about the delays -------------------------- *)

\* Whether the options in force have exponential backoff on.
BackoffEnabled == backoff.exponentialBackoff # <<FALSE>>

\* The cap in force.
DelayCap == IF backoff.maxDelayMs = <<>> THEN 30000 ELSE backoff.maxDelayMs[1]

\* C20: the delay withRetry computes after failed attempt k is delayMs *
\* 2^(k-1), or maxDelayMs if that is smaller, when exponential backoff is
\* on (which it is when the option is left out, maxDelayMs then being
\* 30000 when left out), and delayMs when it is off; with exponential
\* backoff the delays never decrease and never exceed maxDelayMs; delayMs
\* 10 with maxDelayMs 50 gives 10, 20, 40, 50.
C20_Delays ==
    GenericCall =>
        /\ Len(ens.delays) <= Len(ens.errs)
        /\ \A k \in 1..Len(ens.delays) :
              IF BackoffEnabled
              THEN /\ ens.delays[k] =
                          IF backoff.delayMs * (2 ^ (k - 1)) <= DelayCap
                          THEN backoff.delayMs * (2 ^ (k - 1)) ELSE DelayCap
                   /\ ens.delays[k] <= DelayCap
                   /\ k > 1 => ens.delays[k - 1] <= ens.delays[k]
              ELSE ens.delays[k] = backoff.delayMs
        /\ (BackoffEnabled /\ backoff.delayMs = 10 /\ backoff.maxDelayMs = <<50>>
                /\ Len(ens.delays) = 4) =>
              ens.delays = <<10, 20, 40, 50>>

\* withRetry, with delayMs 10, maxDelayMs 50 and exponentialBackoff left
\* out, has slept four times.
C20_Witness ==
    /\ GenericCall
    /\ backoff = [delayMs |-> 10, exponentialBackoff |-> <<>>, maxDelayMs |-> <<50>>]
    /\ Len(ens.delays) = 4
    /\ ens.delays[4] = 50
    /\ ens.attempt = 5

\* C21: given an empty contributor list, processAttestations still ensures
\* the project atom exactly once and issues no contributor or triple
\* operation; the summary it returns has contributorCount 0, no results and
\* attestationsCreated = attestationsUpdated = 0.
C21_EmptyList ==
    (contributors = <<>> /\ pc # "idle") =>
        /\ ens.kind \in {"project", "none"}
        /\ Len(calls) <= 1
        /\ \A i \in 1..Len(calls) : calls[i].kind = "project"
        /\ pc = "returned" =>
              /\ Len(calls) = 1
              /\ calls[1].res # <<>>
              /\ returned[1].projectAtomId = calls[1].res[1].id
              /\ returned[1].contributorCount = 0
              /\ returned[1].results = <<>>
              /\ returned[1].attestationsCreated = 0
              /\ returned[1].attestationsUpdated = 0

\* A run over no contributors has created the project atom and returned.
C21_Witness ==
    /\ pc = "returned"
    /\ contributors = <<>>
    /\ Len(calls) = 1
    /\ calls[1].kind = "project"
    /\ calls[1].created
    /\ returned[1].contributorCount = 0
    /\ returned[1].projectAtomId = AtomIdOf(ProjectUrl)

\* The j-th ensure call of the run is a triple call that raised, after the
\* atom call of the same contributor had returned.
TripleCallRaised(j) ==
    /\ j \in 2..Len(calls)
    /\ calls[j].kind = "triple"
    /\ calls[j].err # <<>>
    /\ calls[j - 1].kind = "contributor"
    /\ calls[j - 1].res # <<>>

\* C22: with failureMode 'warn', a contributor whose atom call returned and
\* whose triple call raised gets exactly one result, with success = false,
\* the error's message and neither an atom nor a triple result; the atom
\* stays on the ledger, the next ensure call of the run (if any) is the atom
\* call of the next contributor, and the run goes on to a summary with one
\* result per contributor.
C22_FailedTripleKeepsAtom ==
    failureMode = "warn" =>
        \A j \in 1..Len(calls) :
            TripleCallRaised(j) =>
                LET i == calls[j].idx
                IN  /\ contributors[i].profileUrl \in atoms
                    /\ AtomIdOf(contributors[i].profileUrl) = calls[j - 1].key
                    /\ pc # "raised"
                    /\ j < Len(calls) =>
                          /\ calls[j + 1].kind = "contributor"
                          /\ calls[j + 1].idx = i + 1
                    /\ (j = Len(calls) /\ idx > i /\ ens.kind # "none") =>
                          (ens.kind = "contributor" /\ idx = i + 1)
                    /\ idx > i =>
                          /\ Len(summary.results) >= i
                          /\ summary.results[i].contributor = contributors[i]
                          /\ summary.results[i].success = FALSE
                          /\ summary.results[i].error =
                                <<ErrorMessage(calls[j].err[1])>>
                          /\ summary.results[i].atomResult = <<>>
                          /\ summary.results[i].tripleResult = <<>>
                    /\ pc = "returned" =>
                          Len(returned[1].results) = Len(contributors)

\* With failureMode 'warn', the first of two contributors had their atom
\* created and their triple call raised, the second was attested, and the
\* summary has been returned.
C22_Witness ==
    /\ failureMode = "warn"
    /\ pc = "returned"
    /\ Len(contributors) = 2
    /\ Len(calls) = 5
    /\ TripleCallRaised(3)
    /\ calls[2].created
    /\ returned[1].results[1].success = FALSE
    /\ returned[1].results[2].success = TRUE

\* An ensure call is in progress: withRetry has been entered and has neither
\* returned nor thrown.
InFlight ==
    /\ ens.kind \in {"project", "contributor", "triple"}
    /\ pc \in {"lookup", "funds", "submit", "confirm", "caught", "sleep"}

\* An ensure call of `kind` for the contributor at position i may come
\* directly after the finished call prev (<<>>: no call before it).
Follows(prev, kind, i) ==
    IF kind = "project" THEN prev = <<>>
    ELSE IF kind = "contributor"
    THEN /\ prev # <<>>
         /\ \/ prev[1].kind = "project" /\ prev[1].res # <<>> /\ i = 1
            \/ prev[1].kind = "triple" /\ i = prev[1].idx + 1
            \/ prev[1].kind = "contributor" /\ prev[1].err # <<>>
                  /\ i = prev[1].idx + 1
    ELSE /\ prev # <<>>
         /\ prev[1].kind = "contributor"
         /\ prev[1].res # <<>>
         /\ i = prev[1].idx

\* The finished call before position j of calls.
CallBefore(j) == IF j = 1 THEN <<>> ELSE <<calls[j - 1]>>

\* C23: the ensure calls of a run are made one after the other by the one
\* control flow (a call begins only when every call before it has finished):
\* the first is the only project call, and it has returned before any
\* contributor call; for the contributors in input order, the atom call of a
\* contributor has returned before their triple call begins, and that call
\* has returned or raised before the atom call of the next contributor.
C23_Sequential ==
    /\ \A j \in 1..Len(calls) :
          /\ Follows(CallBefore(j), calls[j].kind, calls[j].idx)
          /\ calls[j].kind = "contributor" =>
                calls[j].key = AtomIdOf(contributors[calls[j].idx].profileUrl)
          /\ calls[j].kind = "triple" => calls[j].key =
                calculateTripleId(calls[j - 1].key,
                                  WAS_ASSOCIATED_WITH_PREDICATE_ID,
                                  calls[1].res[1].id)
    /\ InFlight => Follows(CallBefore(Len(calls) + 1), ens.kind, idx)
    /\ pc = "returned" =>
          /\ Len(calls) >= 1
          /\ calls[Len(calls)].idx = Len(contributors)

\* Two contributors have been attested: the run made five ensure calls, the
\* project's, then each contributor's atom and triple call.
C23_Witness ==
    /\ pc = "returned"
    /\ Len(contributors) = 2
    /\ Len(calls) = 5
    /\ <<calls[1].kind, calls[2].kind, calls[3].kind, calls[4].kind,
         calls[5].kind>> =
            <<"project", "contributor", "triple", "contributor", "triple">>
    /\ \A j \in 1..5 : calls[j].res # <<>>

\* The frame belongs to one of the three ensurers.
OnLedgerCall == ens.kind \in {"project", "contributor", "triple"}

\* The marks createAtomFromThing / createTripleStatement / deposit leave in
\* the frame: a transaction handed to the ledger, accepted or not.
SubmitOps ==
    {"create:ok", "create:dup", "create:fail", "deposit:ok", "deposit:fail"}

\* The number of transactions the ensure call f has handed to the ledger.
Submissions(f) == Cardinality({ i \in 1..Len(f.ops) : f.ops[i] \in SubmitOps })

\* C27: whatever maxAttempts is, one ensure call hands at most one create or
\* deposit transaction to the ledger: once the submission or the
\* confirmation wait has failed, the body throws a TransactionFailedError
\* that is not retryable, and withRetry sleeps for no further attempt.
C27_NoResubmission ==
    OnLedgerCall =>
        /\ Submissions(ens) <= 1
        /\ (pc = "caught" /\ Submissions(ens) = 1) =>
              /\ thrown[1].kind = "TransactionFailedError"
              /\ ~thrown[1].isRetryable
        /\ pc = "sleep" => Submissions(ens) = 0
        /\ (pc = "ensureRaised" /\ Submissions(ens) = 1) =>
              ens.invoked = ens.attempt

\* With attempts to spare, a create was accepted, its confirmation wait
\* failed, and the ensure call has raised without a further attempt.
C27_Witness ==
    /\ OnLedgerCall
    /\ pc = "ensureRaised"
    /\ ens.attempt < maxAttempts
    /\ Submissions(ens) = 1
    /\ HasOp(ens, {"create:ok"})
    /\ ens.ops[Len(ens.ops)] = "confirm"

\* The lookup issued at position i of the ops of f threw: its `find` is
\* followed by the warning of the catch around it.  (The warning of
\* withRetry never follows a `find`, which by itself throws nothing out of
\* the body.)
LookupThrewAt(f, i) ==
    /\ i \in 1..(Len(f.ops) - 1)
    /\ f.ops[i] = "find"
    /\ f.ops[i + 1] = "warning"

\* The position in the ops of f of the lookup of its latest attempt.
LastFind(f) ==
    CHOOSE i \in 1..Len(f.ops) :
        /\ f.ops[i] = "find"
        /\ \A k \in (i + 1)..Len(f.ops) : f.ops[k] # "find"

\* C28: when the lookup of an ensure operation throws, the operation logs
\* one warning and goes on in the same attempt as if nothing had been found:
\* the funds check comes next, then a create (never a deposit), then the
\* confirmation wait; the failed lookup by itself neither raises an error
\* nor leads to a sleep and a new attempt, and an outcome returned by such an
\* attempt has existed = false.
C28_LookupFailureDegrades ==
    OnLedgerCall =>
        /\ \A i \in 1..Len(ens.ops) :
              LookupThrewAt(ens, i) =>
                  /\ (i + 2 <= Len(ens.ops)) => ens.ops[i + 2] = "balance"
                  /\ (i + 3 <= Len(ens.ops)) =>
                        ens.ops[i + 3] \in
                            {"create:ok", "create:dup", "create:fail", "warning"}
                  /\ (i + 4 <= Len(ens.ops) /\ ens.ops[i + 3] = "create:ok") =>
                        ens.ops[i + 4] = "confirm"
                  /\ (i + 2 > Len(ens.ops)) => (pc = "funds" /\ thrown = <<>>)
        /\ (pc = "ensured" /\ LookupThrewAt(ens, LastFind(ens))) =>
              /\ ret[1].existed = FALSE
              /\ ret[1].txHash # ZeroHex
              /\ Len(ens.ops) = LastFind(ens) + 4

\* The lookup of the first attempt threw, and the same attempt has created
\* the resource and returned it as new.
C28_Witness ==
    /\ OnLedgerCall
    /\ pc = "ensured"
    /\ ens.attempt = 1
    /\ ens.ops = <<"find", "warning", "balance", "create:ok", "confirm">>
    /\ ret[1].existed = FALSE

\* withRetry goes on after e when attempts remain: e is not a classified
\* error with isRetryable = false.
Transient(e) == ~Fatal(e)

\* The ensure call in ens has ended, by a return or by a throw.
CallEnded == OnLedgerCall /\ pc \in {"ensured", "ensureRaised"}

\* C26: when a step of an ensure operation (lookup, funds check, submission,
\* confirmation wait) fails with a transient error in an attempt that is not
\* the last one the retry policy allows, the call does not end in that
\* attempt: its body is entered again, from the lookup.
C26_TransientFailureRestarts ==
    CallEnded =>
        \A k \in 1..Len(ens.raw) :
            (Transient(ens.raw[k].error) /\ ens.raw[k].attempt < maxAttempts) =>
                ens.invoked > ens.raw[k].attempt

\* The balance read of the first attempt of ensureProjectAtom failed on the
\* network with an attempt to spare, and the call has raised.
C26_Witness ==
    /\ pc = "ensureRaised"
    /\ ens.kind = "project"
    /\ maxAttempts > 1
    /\ Len(ens.raw) = 1
    /\ ens.raw[1].step = "funds"
    /\ ens.raw[1].error.kind = "NetworkError"
    /\ ens.invoked = 1
    /\ thrown[1].kind = "TransactionFailedError"

\* The error the gateway threw last in the ensure call in ens.
LastRaw == ens.raw[Len(ens.raw)]

\* The ensure call has raised because of insufficient funds, a failed
\* submission or a failed confirmation wait.
RaisedInWritePath ==
    /\ OnLedgerCall
    /\ pc = "ensureRaised"
    /\ ens.raw # <<>>
    /\ \/ LastRaw.step \in {"submit", "confirm"}
       \/ LastRaw.error.kind = "InsufficientFundsError"

\* C29 as stated: insufficient funds, a failed submission and a failed
\* confirmation are all raised as TransactionFailedError by every ensurer.
C29_Original ==
    RaisedInWritePath => thrown[1].kind = "TransactionFailedError"

\* C29: a failed create or deposit submission and a failed confirmation wait
\* are raised by every ensurer as a TransactionFailedError whose message is
\* the operation's prefix followed by the message of the failure;
\* insufficient funds is raised in that form by the two atom ensurers, and
\* by the triple ensurer as the InsufficientFundsError itself.
C29_WritePathErrors ==
    RaisedInWritePath =>
        IF ens.kind = "triple" /\ LastRaw.step = "funds"
        THEN thrown[1] = LastRaw.error
        ELSE /\ thrown[1].kind = "TransactionFailedError"
             /\ ~thrown[1].isRetryable
             /\ thrown[1].message =
                    <<FailurePrefix(ens)>> \o LastRaw.error.message

\* The triple ensurer has raised an InsufficientFundsError after the atom
\* of the contributor was created.
C29_Witness ==
    /\ pc = "ensureRaised"
    /\ ens.kind = "triple"
    /\ LastRaw.step = "funds"
    /\ thrown[1].kind = "InsufficientFundsError"
    /\ Len(calls) = 3
    /\ calls[2].created

\* C30: a classified non-retryable error thrown by the gateway inside an
\* ensure call is the error the call raises to the orchestrator, kind and
\* all; and the errors withRetry has absorbed (those of the attempts before
\* the last one) are none of them non-retryable.
C30_FatalErrorsUnchanged ==
    OnLedgerCall =>
        /\ (pc = "ensureRaised" /\ ens.raw # <<>> /\ Fatal(LastRaw.error)
                /\ LastRaw.step # "lookup") =>
              thrown[1] = LastRaw.error
        /\ \A k \in 1..(Len(ens.errs) - 1) : Transient(ens.errs[k])

\* ensureProjectAtom has found the balance short and has raised a
\* TransactionFailedError.
C30_Witness ==
    /\ pc = "ensureRaised"
    /\ ens.kind = "project"
    /\ LastRaw.error.kind = "InsufficientFundsError"
    /\ thrown[1].kind = "TransactionFailedError"

\* Nothing of the work of run() has been done: no input validated, no client
\* under construction, no ensure call, no gateway fault, no transaction, no
\* output.
NothingStarted ==
    /\ run.config = <<>>
    /\ run.client = "none"
    /\ run.repository = FALSE
    /\ ens = NoFrame
    /\ calls = <<>>
    /\ faults = 0
    /\ txCount = 0
    /\ atoms = {}
    /\ triples = {}
    /\ run.outputs = <<>>

\* C24: run() starts work only for a pull_request event whose pull request
\* is merged.  For a pull request that is not merged it returns with
\* nothing started and without setFailed; for another event it calls
\* setFailed, with nothing started either.
C24_OnlyMergedPullRequests ==
    /\ (run.eventName = "pull_request"
            /\ (run.pull = <<>> \/ ~run.pull[1].merged)) =>
          /\ NothingStarted
          /\ run.failed = <<>>
          /\ thrown = <<>>
          /\ pc \in {"run", "done"}
          /\ pc = "done" => run.log = <<"info:not merged">>
    /\ run.eventName # "pull_request" =>
          /\ NothingStarted
          /\ pc \in {"run", "runCatch", "done"}
          /\ pc = "done" =>
                /\ run.failed # <<>>
                /\ run.failed[1][1] = "Action failed"
    /\ ~NothingStarted =>
          /\ run.eventName = "pull_request"
          /\ run.pull # <<>>
          /\ run.pull[1].merged

\* run() has returned for a pull request that is not merged.
C24_Witness ==
    /\ pc = "done"
    /\ run.eventName = "pull_request"
    /\ run.pull = <<[merged |-> FALSE]>>
    /\ run.inputsValid
    /\ run.log = <<"info:not merged">>
    /\ run.failed = <<>>
    /\ NothingStarted

\* The positions of the commits that have an author email.
WithEmail(commits) ==
    { n \in 1..Len(commits) :
        commits[n].email # <<>> /\ commits[n].email[1] # <<>> }

\* The positions of the commits whose author email is `email` up to case.
Matching(commits, email) ==
    { n \in WithEmail(commits) :
        toLowerCase(commits[n].email[1]) = toLowerCase(email) }

\* The first position of a non-empty set of positions.
FirstOf(positions) == CHOOSE n \in positions : \A m \in positions : n <= m

RECURSIVE SumCommitCounts(_)
SumCommitCounts(cs) ==
    IF cs = <<>> THEN 0 ELSE Head(cs).commitCount + SumCommitCounts(Tail(cs))

\* C25: fetchContributors returns one contributor for each distinct
\* lower-cased author email of the commits, in the order in which those
\* emails first appear; commits without an author email contribute
\* nothing; the commitCount of a contributor is the number of commits whose
\* author email equals theirs up to case, and the commitCounts add up to the
\* number of commits that have an author email.
C25_OnePerEmail ==
    pc = "fetched" =>
        LET commits == fetch.commits
            result == fetch.contributors
        IN  /\ \A r \in 1..Len(result) : Matching(commits, result[r].email) # {}
            /\ \A n \in WithEmail(commits) :
                  \E r \in 1..Len(result) : n \in Matching(commits, result[r].email)
            /\ \A r, q \in 1..Len(result) :
                  r < q =>
                      /\ toLowerCase(result[r].email) # toLowerCase(result[q].email)
                      /\ FirstOf(Matching(commits, result[r].email))
                            < FirstOf(Matching(commits, result[q].email))
            /\ \A r \in 1..Len(result) :
                  result[r].commitCount =
                      Cardinality(Matching(commits, result[r].email))
            /\ SumCommitCounts(result) = Cardinality(WithEmail(commits))
            /\ fetch.skipped = Len(commits) - Cardinality(WithEmail(commits))

\* Three commits, by A@x, by nobody and by a@x, have yielded one contributor
\* with two commits.
C25_Witness ==
    /\ pc = "fetched"
    /\ Len(fetch.commits) = 3
    /\ fetch.commits[1].email = << <<"A", "@", "x">> >>
    /\ fetch.commits[2].email = <<>>
    /\ fetch.commits[3].email = << <<"a", "@", "x">> >>
    /\ Len(fetch.contributors) = 1
    /\ fetch.contributors[1].commitCount = 2
    /\ fetch.skipped = 1

\* C31: a create or deposit transaction is handed to the ledger only
\* directly after a funds check of the same attempt that saw a balance of at
\* least minDeposit (a balance equal to minDeposit passes), the ledger being
\* as the check saw it; a funds check that sees less makes the attempt fail
\* with no transaction submitted.
C31_FundsCheckedBeforeSpending ==
    OnLedgerCall =>
        /\ \A i \in 1..Len(ens.ops) :
              ens.ops[i] \in SubmitOps => (i > 1 /\ ens.ops[i - 1] = "balance")
        /\ pc = "submit" =>
              /\ balance >= MinDeposit
              /\ ens.ops[Len(ens.ops)] = "balance"
        /\ balance >= 0
        /\ (pc = "caught" /\ ens.raw # <<>>
                /\ LastRaw.error.kind = "InsufficientFundsError") =>
              /\ balance < MinDeposit
              /\ ens.ops[Len(ens.ops)] = "balance"
              /\ ens.txHash = ZeroHex
        /\ (pc = "caught" /\ ens.ops[Len(ens.ops)] = "balance") =>
              (balance < MinDeposit \/ LastRaw.error.kind = "NetworkError")

\* A wallet that held exactly minDeposit has passed the funds check and has
\* spent it on a create.
C31_Witness ==
    /\ OnLedgerCall
    /\ pc = "confirm"
    /\ txCount = 1
    /\ balance = 0
    /\ ens.ops[Len(ens.ops) - 1] = "balance"
    /\ ens.ops[Len(ens.ops)] = "create:ok"

\* The hashes a summary reports: transactionHashes, projectAtomTxHash and
\* the txHash of the outcomes in its results.
ReportedHashes(s) ==
    { s.transactionHashes[n] : n \in 1..Len(s.transactionHashes) }
        \cup { s.projectAtomTxHash[n] : n \in 1..Len(s.projectAtomTxHash) }
        \cup UNION { { o.txHash : o \in
                        { s.results[n].atomResult[m] :
                            m \in 1..Len(s.results[n].atomResult) }
                        \cup { s.results[n].tripleResult[m] :
                                 m \in 1..Len(s.results[n].tripleResult) } } :
                    n \in 1..Len(s.results) }

\* The confirmation wait of the j-th ensure call of the run failed.
UnconfirmedCall(j) ==
    /\ j \in 1..Len(calls)
    /\ calls[j].err # <<>>
    /\ calls[j].txHash # ZeroHex

\* C32: an ensure call that has handed a transaction to the ledger returns
\* an outcome only when the confirmation wait for that transaction, the last
\* thing it did, has succeeded, and the outcome carries that transaction's
\* hash; when the wait fails the call returns nothing, and the hash of the
\* unconfirmed transaction appears in no outcome and nowhere in the summary.
C32_OutcomeAfterConfirmation ==
    /\ (OnLedgerCall /\ pc = "ensured" /\ Submissions(ens) > 0) =>
          /\ Len(ens.ops) >= 2
          /\ ens.ops[Len(ens.ops)] = "confirm"
          /\ ens.ops[Len(ens.ops) - 1] \in {"create:ok", "deposit:ok"}
          /\ ret[1].txHash = ens.txHash
          /\ ens.txHash = TxHashOf(txCount)
          /\ \A k \in 1..Len(ens.raw) :
                ens.raw[k].step = "confirm" => ens.raw[k].attempt < ens.attempt
    /\ (OnLedgerCall /\ pc \in {"caught", "ensureRaised"} /\ ens.raw # <<>>
            /\ LastRaw.step = "confirm") =>
          /\ ret = <<>>
          /\ ens.txHash # ZeroHex
    /\ \A j \in 1..Len(calls) :
          UnconfirmedCall(j) =>
              /\ calls[j].res = <<>>
              /\ calls[j].txHash \notin ReportedHashes(summary)
              /\ returned # <<>> =>
                    calls[j].txHash \notin ReportedHashes(returned[1])

\* With failureMode 'warn', the third transaction of the run, a triple
\* create, was accepted but the wait for its confirmation failed; the
\* summary has been returned without its hash.
C32_Witness ==
    /\ pc = "returned"
    /\ Len(calls) = 3
    /\ UnconfirmedCall(3)
    /\ calls[3].kind = "triple"
    /\ calls[3].txHash = TxHashOf(3)
    /\ <<calls[3].key \div 100, AtomIdOf(ProjectUrl)>> \in triples
    /\ TxHashOf(3) \notin ReportedHashes(returned[1])

\* An atom ensurer is about to look up an atom the ledger holds.
LookingUpExistingAtom ==
    /\ pc = "lookup"
    /\ IsAtomKind(ens.kind)
    /\ ens.url \in atoms

\* The step in which the lookup finds the atom and the ensurer returns it:
\* nothing but the lookup is issued and the ledger is left as it was.
ReturnsFoundAtom ==
    /\ pc' = "ensured"
    /\ ret' = <<[id |-> AtomIdOf(ens.url), txHash |-> ZeroHex, cost |-> 0,
                 existed |-> TRUE]>>
    /\ ens'.ops = Append(ens.ops, "find")
    /\ ens'.attempt = ens.attempt
    /\ atoms' = atoms
    /\ triples' = triples
    /\ balance' = balance
    /\ txCount' = txCount

\* The step in which the lookup throws.
LookupThrows ==
    /\ pc' = "funds"
    /\ ens'.ops = ens.ops \o <<"find", "warning">>

\* C33: when the lookup of an atom ensurer finds the atom, the ensurer
\* returns the found id with existed = true, cost 0 and the '0x0' hash in
\* that same step: no funds check, create, deposit or confirmation wait is
\* issued, and atoms, triples, balance and transaction count are as before,
\* whatever the balance is.
C33_FoundAtomUntouched ==
    [][LookingUpExistingAtom => (ReturnsFoundAtom \/ LookupThrows)]_vars

\* An atom ensurer has returned an existing atom with a balance below
\* minDeposit, after the lookup alone.
C33_Witness ==
    /\ pc = "ensured"
    /\ IsAtomKind(ens.kind)
    /\ ens.ops = <<"find">>
    /\ ret[1].existed
    /\ ret[1].cost = 0
    /\ balance < MinDeposit

\* What the current attempt of f has issued after its lookup.
AfterLookup(f) == SubSeq(f.ops, LastFind(f) + 1, Len(f.ops))

\* s is a prefix of t.
IsPrefix(s, t) == Len(s) <= Len(t) /\ SubSeq(t, 1, Len(s)) = s

\* The triple ensurer is past a lookup that has found the triple.
DepositBranch ==
    /\ ens.kind = "triple"
    /\ ens.tripleExists
    /\ pc \in {"funds", "submit", "confirm", "caught", "ensured"}

\* The order of the deposit branch: funds check, deposit, confirmation, and
\* the outcome returned at its end.
DepositBranchOrder ==
    DepositBranch =>
        /\ \/ IsPrefix(AfterLookup(ens), <<"balance", "deposit:ok", "confirm">>)
           \/ AfterLookup(ens) = <<"balance", "deposit:fail">>
        /\ pc = "submit" => AfterLookup(ens) = <<"balance">> /\ balance >= MinDeposit
        /\ pc = "confirm" => AfterLookup(ens) = <<"balance", "deposit:ok">>
        /\ pc = "ensured" =>
              /\ AfterLookup(ens) = <<"balance", "deposit:ok", "confirm">>
              /\ ret = <<[id |-> calculateTripleId(ens.subj,
                                     WAS_ASSOCIATED_WITH_PREDICATE_ID, ens.obj),
                          txHash |-> ens.txHash, cost |-> MinDeposit,
                          existed |-> TRUE]>>
              /\ ens.txHash = TxHashOf(txCount)
              /\ ens.txHash # ZeroHex

\* The deposit step pays minDeposit into the triple that was found and adds
\* nothing to the ledger.
DepositStep ==
    (DepositBranch /\ pc = "submit" /\ pc' = "confirm") =>
        /\ balance' = balance - MinDeposit
        /\ txCount' = txCount + 1
        /\ triples' = triples
        /\ atoms' = atoms
        /\ <<ens.subj, ens.obj>> \in triples

\* C34: when the lookup of the triple ensurer finds the triple, the ensurer
\* checks the funds for minDeposit, then submits a deposit of exactly
\* minDeposit to the found triple and never a create, waits for the
\* confirmation, and returns existed = true, cost = minDeposit and the hash
\* of the deposit transaction.
C34_DepositBranch == []DepositBranchOrder /\ [][DepositStep]_vars

\* The triple ensurer has returned from a deposit to a triple it found.
C34_Witness ==
    /\ pc = "ensured"
    /\ ens.kind = "triple"
    /\ ens.ops = <<"find", "balance", "deposit:ok", "confirm">>
    /\ ret[1].existed
    /\ ret[1].cost = MinDeposit
    /\ ret[1].txHash = TxHashOf(txCount)

\* withRetry has caught, before its last attempt, an error that is no
\* ActionError.
CaughtUnclassifiedEarly ==
    /\ GenericCall
    /\ pc = "caught"
    /\ ~IsActionError(thrown[1])
    /\ ens.attempt < maxAttempts

\* The catch block goes on to the sleep that precedes the next attempt.
GoesOnToRetry ==
    /\ pc' = "sleep"
    /\ ens'.attempt = ens.attempt
    /\ ens'.invoked = ens.invoked

\* The sleep is followed by the next invocation of fn.
SleepThenNextAttempt ==
    (GenericCall /\ pc = "sleep") =>
        /\ pc' = "fn"
        /\ ens'.attempt = ens.attempt + 1

\* withRetry has raised before fn was invoked maxAttempts times only on a
\* classified error whose isRetryable is false.
EarlyExitOnlyOnFatal ==
    (GenericCall /\ pc = "ensureRaised" /\ ens.invoked < maxAttempts) =>
        LET last == ens.errs[Len(ens.errs)]
        IN  /\ last.kind \in ActionErrorKinds
            /\ ~last.isRetryable
            /\ thrown = <<last>>

\* C35: withRetry treats every error that is no ActionError as retryable:
\* caught on an attempt that is not the last, such an error always leads to
\* another attempt; and withRetry leaves its loop before maxAttempts
\* invocations only on a classified error with isRetryable = false.
C35_UnclassifiedRetried ==
    /\ []EarlyExitOnlyOnFatal
    /\ [][(CaughtUnclassifiedEarly => GoesOnToRetry) /\ SleepThenNextAttempt]_vars

\* fn threw a plain Error, then a string, and returned on its third
\* invocation.
C35_Witness ==
    /\ GenericCall
    /\ pc = "ensured"
    /\ ens.invoked = 3
    /\ ens.errs[1].kind = "Error"
    /\ ens.errs[2].kind = "NonError"

\* How many of the ops of f are op.
CountOp(f, op) == Cardinality({ i \in 1..Len(f.ops) : f.ops[i] = op })

\* Warnings and sleeps come in pairs between two invocations of fn, and
\* nothing but the invocation comes first.
WarningSleepPairs(f) ==
    /\ f.ops # <<>> => f.ops[1] = "fn"
    /\ \A i \in 1..Len(f.ops) :
          /\ f.ops[i] = "warning" =>
                /\ i > 1 /\ f.ops[i - 1] = "fn"
                /\ i < Len(f.ops) => f.ops[i + 1] = "sleep"
          /\ f.ops[i] = "sleep" =>
                /\ i > 1 /\ f.ops[i - 1] = "warning"
                /\ i < Len(f.ops) => f.ops[i + 1] = "fn"
          /\ (f.ops[i] = "fn" /\ i > 1) => f.ops[i - 1] = "sleep"

\* C36: withRetry logs one warning and sleeps once for each failed attempt
\* that is followed by another attempt, and neither for an attempt that
\* succeeds, for a failure that is not retryable or for the failure of the
\* last attempt; no sleep precedes the first attempt; and the k-th warning
\* reports attempt k and maxAttempts.
C36_WarningPerRetry ==
    GenericCall =>
        /\ WarningSleepPairs(ens)
        /\ Len(ens.warnings) = CountOp(ens, "warning")
        /\ \A k \in 1..Len(ens.warnings) :
              /\ ens.warnings[k].attempt = k
              /\ ens.warnings[k].maxAttempts = maxAttempts
              /\ k < maxAttempts
              /\ ~Fatal(ens.errs[k])
              /\ ens.warnings[k].message = ErrorMessage(ens.errs[k])
        /\ pc \in {"fn", "ensured", "ensureRaised"} =>
              /\ CountOp(ens, "warning") = ens.invoked - (IF pc = "fn" THEN 0 ELSE 1)
              /\ CountOp(ens, "sleep") = CountOp(ens, "warning")
        /\ pc = "ensured" => CountOp(ens, "warning") = Len(ens.errs)
        /\ pc = "ensureRaised" => CountOp(ens, "warning") = Len(ens.errs) - 1
        /\ pc = "caught" => CountOp(ens, "warning") = Len(ens.errs) - 1
        /\ pc = "sleep" =>
              /\ CountOp(ens, "warning") = Len(ens.errs)
              /\ CountOp(ens, "sleep") = Len(ens.errs) - 1

\* withRetry, allowed three attempts, has given up after two warnings and
\* two sleeps.
C36_Witness ==
    /\ GenericCall
    /\ pc = "ensureRaised"
    /\ maxAttempts = 3
    /\ ens.ops = <<"fn", "warning", "sleep", "fn", "warning", "sleep", "fn">>
    /\ Len(ens.warnings) = 2
    /\ ens.warnings[2].attempt = 2

\* The positions in the log of the events of `level`.
EventsAt(level) == { i \in 1..Len(log) : log[i].level = level }

\* The positions in the log of the events processContributor's catch has
\* logged for contributor i.
FailureEvents(i) ==
    { k \in 1..Len(log) : log[k].from = "contributor" /\ log[k].idx = i }

\* The results of the summary that record a failure.
FailedResults ==
    { i \in 1..Len(summary.results) : ~summary.results[i].success }

\* The warnings of withRetry and of the lookups are warnings.
RetryAndLookupWarn ==
    \A k \in 1..Len(log) :
        log[k].from \in {"retry", "lookup"} => log[k].level = "warning"

\* C37 as stated: an error-level event is logged only when a contributor
\* fails under failure mode 'warn' (one for each such failure), none when a
\* contributor fails under failure mode 'fail', and retried failures and
\* failed lookups log warnings only.
C37_Original ==
    /\ \A k \in EventsAt("error") :
          log[k].from = "contributor" /\ failureMode = "warn"
    /\ failureMode = "warn" =>
          \A i \in FailedResults :
              \E k \in FailureEvents(i) : log[k].level = "error"
    /\ failureMode = "fail" => EventsAt("error") = {}
    /\ RetryAndLookupWarn

\* C37 amended: an error-level event is logged only when a contributor
\* fails under failure mode 'fail', one for that failure, as the last event
\* before the error propagates; a contributor failure under failure mode
\* 'warn' logs one warning-level event and no error-level event; and
\* retried failures and failed lookups log warnings only.
C37_ErrorLevelOnAbort ==
    /\ \A k \in EventsAt("error") :
          /\ log[k].from = "contributor"
          /\ failureMode = "fail"
          /\ k = Len(log)
          /\ pc = "raised"
          /\ log[k].idx = idx
    /\ (pc = "raised" /\ failureMode = "fail" /\ idx >= 1) =>
          /\ Cardinality(EventsAt("error")) = 1
          /\ Cardinality(FailureEvents(idx)) = 1
    /\ failureMode = "warn" =>
          /\ EventsAt("error") = {}
          /\ \A i \in 1..Len(contributors) :
                /\ Cardinality(FailureEvents(i)) = (IF i \in FailedResults THEN 1 ELSE 0)
                /\ \A k \in FailureEvents(i) : log[k].level = "warning"
    /\ RetryAndLookupWarn

\* Under failure mode 'fail' a contributor has failed after a retry: the
\* log ends with the one error-level event, after the warning of the retry.
C37_Witness ==
    /\ pc = "raised"
    /\ failureMode = "fail"
    /\ idx = 1
    /\ Len(log) >= 2
    /\ log[Len(log)] = [level |-> "error", from |-> "contributor", idx |-> 1]
    /\ \E k \in 1..(Len(log) - 1) :
          log[k].from = "retry" /\ log[k].level = "warning"

\* An execution of the body handed to withRetry, or the catch block or
\* sleep of withRetry, is in progress.
InEnsureCall == pc \in {"lookup", "funds", "submit", "confirm", "caught", "sleep"}

\* The ensure call has returned or raised.
EnsureCallOver == pc \in {"ensured", "ensureRaised"}

\* processAttestations has returned its summary or raised.
RunOver == pc \in {"returned", "raised"}

\* No ensure call executes its body more than maxAttempts times, and no run
\* makes more than 1 + 2n ensure calls.
BoundedWork ==
    /\ ens.invoked <= maxAttempts
    /\ ens.attempt <= maxAttempts
    /\ \A j \in 1..Len(calls) : calls[j].invoked <= maxAttempts
    /\ Len(calls) + (IF InEnsureCall THEN 1 ELSE 0)
          <= 1 + (2 * Len(contributors))
    /\ EnsureCallOver => ens.invoked >= 1

\* C38: provided every gateway call returns or fails, every ensure call
\* returns or raises, after at most maxAttempts executions of its body, and
\* a run over n contributors returns its summary or raises, after at most
\* 1 + 2n ensure calls.
C38_Terminates ==
    /\ []BoundedWork
    /\ InEnsureCall ~> EnsureCallOver
    /\ (pc # "idle") ~> RunOver

\* A run over two contributors has returned its summary after five ensure
\* calls, one of which took maxAttempts = 2 executions of its body.
C38_Witness ==
    /\ pc = "returned"
    /\ Len(contributors) = 2
    /\ Len(calls) = 5
    /\ maxAttempts = 2
    /\ \E j \in 1..5 : calls[j].invoked = 2

\* The ensure calls of the run that returned after a transaction of theirs
\* was confirmed.
ConfirmedCalls ==
    { j \in 1..Len(calls) :
        calls[j].res # <<>> /\ calls[j].res[1].txHash # ZeroHex }

\* What the first j ensure calls of the run have paid in confirmed
\* transactions.
RECURSIVE ConfirmedCost(_)
ConfirmedCost(j) ==
    IF j = 0 THEN 0
    ELSE ConfirmedCost(j - 1)
            + (IF j \in ConfirmedCalls THEN calls[j].res[1].cost ELSE 0)

\* transactionHashes and totalCost of s cover every confirmed transaction
\* of the run.
CoversConfirmed(s) ==
    /\ \A j \in ConfirmedCalls :
          \E n \in 1..Len(s.transactionHashes) :
              s.transactionHashes[n] = calls[j].res[1].txHash
    /\ s.totalCost = ConfirmedCost(Len(calls))

\* Contributor i has a failed result although the atom call made for them
\* had created their atom.
FailedAfterAtomCreated(s, i) ==
    /\ i \in 1..Len(s.results)
    /\ ~s.results[i].success
    /\ \E j \in ConfirmedCalls :
          /\ calls[j].idx = i
          /\ calls[j].kind = "contributor"
          /\ ~calls[j].res[1].existed

\* Every failed result is bare.
FailedResultsBare ==
    \A i \in 1..Len(summary.results) :
        ~summary.results[i].success =>
            /\ summary.results[i].atomResult = <<>>
            /\ summary.results[i].tripleResult = <<>>

\* A summary that covers the confirmed transactions has no contributor that
\* failed after their atom was created.
CoverageNeedsNoLateFailure ==
    (pc = "returned" /\ CoversConfirmed(returned[1])) =>
        \A i \in 1..Len(contributors) : ~FailedAfterAtomCreated(returned[1], i)

\* The step that records a failed result changes the results only.
FailureRecorded ==
    (pc = "ensureRaised" /\ ens.kind \in {"contributor", "triple"}
        /\ pc' = "loop") =>
        /\ Len(summary'.results) = Len(summary.results) + 1
        /\ ~summary'.results[Len(summary'.results)].success
        /\ summary'.transactionHashes = summary.transactionHashes
        /\ summary'.totalCost = summary.totalCost
        /\ summary'.attestationsCreated = summary.attestationsCreated
        /\ summary'.attestationsUpdated = summary.attestationsUpdated

\* C39: a failed result carries neither an atom result nor a triple result,
\* and recording it leaves transactionHashes, totalCost, attestationsCreated
\* and attestationsUpdated as they were; so transactionHashes and totalCost
\* of the summary cover every transaction confirmed during the run only
\* when no contributor failed after their atom was created.
C39_FailedResultsBare ==
    /\ []FailedResultsBare
    /\ []CoverageNeedsNoLateFailure
    /\ [][FailureRecorded]_vars

\* The summary has been returned with a failed result for a contributor
\* whose atom was created in the run: the hash of that transaction is not
\* in transactionHashes, and totalCost is short of what was paid.
C39_Witness ==
    /\ pc = "returned"
    /\ \E i \in 1..Len(contributors) : FailedAfterAtomCreated(returned[1], i)
    /\ ~CoversConfirmed(returned[1])
    /\ returned[1].totalCost < ConfirmedCost(Len(calls))
    /\ returned[1].results[1].atomResult = <<>>

====
